---- MODULE Spec2Model ----
(***************************************************************************)
(* Hybrid retrieval and answer validation of the insurance-policy RAG     *)
(* service: app/rag_pipeline.py (retrieval), app/validation.py (quality   *)
(* gate, faithfulness and hallucination checks, confidence scorer) and    *)
(* app/query.py (the /query handler that orchestrates them, and the parse *)
(* step of /check-coverage and /compare-policies), the ranking metrics of  *)
(* app/evaluation.py, and the index build of ingest_documents.             *)
(*                                                                         *)
(* Text is a sequence of symbols.  A symbol is one character, or a word   *)
(* that the code only ever treats as a unit (a marker such as "ANSWER:",  *)
(* a file name, a fixed message).  Real numbers are exact rationals       *)
(* <<n, d>> with d > 0 in lowest terms; binary floating-point rounding is *)
(* not modelled.                                                          *)
(***************************************************************************)
EXTENDS Integers, Sequences, FiniteSets, TLC

(***************************************************************************)
(* Exact rational arithmetic (Python float arithmetic, without rounding)  *)
(***************************************************************************)
Abs(n) == IF n < 0 THEN -n ELSE n

RECURSIVE GCD(_, _)
GCD(a, b) == IF b = 0 THEN a ELSE GCD(b, a % b)

Rat(n, d) ==
    IF n = 0 THEN <<0, 1>>
    ELSE LET g == GCD(Abs(n), d) IN <<n \div g, d \div g>>

RAdd(a, b) == Rat(a[1] * b[2] + b[1] * a[2], a[2] * b[2])
RMul(a, b) == Rat(a[1] * b[1], a[2] * b[2])
RDivInt(a, n) == Rat(a[1], a[2] * n)
RLt(a, b) == a[1] * b[2] < b[1] * a[2]
RGe(a, b) == ~RLt(a, b)
RLe(a, b) == ~RLt(b, a)
RZero == <<0, 1>>
ROne == <<1, 1>>

RECURSIVE RSum(_)
RSum(s) == IF s = <<>> THEN RZero ELSE RAdd(s[1], RSum(Tail(s)))

Min(a, b) == IF a < b THEN a ELSE b

(***************************************************************************)
(* Text helpers: Python's `in`, slicing and f"{x:.2f}"                    *)
(***************************************************************************)
\* needle in hay
Contains(hay, needle) ==
    \E i \in 0..(Len(hay) - Len(needle)) :
        \A j \in 1..Len(needle) : hay[i + j] = needle[j]

\* s[:n]
Prefix(s, n) == SubSeq(s, 1, Min(n, Len(s)))

RECURSIVE Join(_, _)
\* sep.join(parts) for a sequence of texts
Join(parts, sep) ==
    IF parts = <<>> THEN <<>>
    ELSE IF Len(parts) = 1 THEN parts[1]
    ELSE parts[1] \o sep \o Join(Tail(parts), sep)

\* f"{x:.2f}": the decimal numeral of x rounded to hundredths, as one symbol
Fmt2(x) ==
    LET h == (2 * 100 * Abs(x[1]) + x[2]) \div (2 * x[2])
        frac == h % 100
        body == ToString(h \div 100) \o "." \o
                (IF frac < 10 THEN "0" ELSE "") \o ToString(frac)
    IN  IF x[1] < 0 /\ h > 0 THEN "-" \o body ELSE body

(***************************************************************************)
(* app/config.py                                                          *)
(***************************************************************************)
DEFAULT_K_RESULTS == 6
HYBRID_SEARCH_ENABLED == TRUE
BM25_WEIGHT == <<1, 2>>
SEMANTIC_WEIGHT == <<1, 2>>
MIN_RELEVANCE_SCORE == <<1, 2>>
ENABLE_FAITHFULNESS_CHECK == TRUE

(***************************************************************************)
(* Character classes of Python's re module                                *)
(***************************************************************************)
Digits == {"0", "1", "2", "3", "4", "5", "6", "7", "8", "9"}
UpperLetters ==
    {"A", "B", "C", "D", "E", "F", "G", "H", "I", "J", "K", "L", "M",
     "N", "O", "P", "Q", "R", "S", "T", "U", "V", "W", "X", "Y", "Z"}
Whitespace == {" ", "\n", "\t", "\r"}

\* the symbol at position i, or "" past either end
At(s, i) == IF i >= 1 /\ i <= Len(s) THEN s[i] ELSE ""

\* last index of the longest run of symbols of `class` starting at i (i-1: none)
RunEnd(s, i, class) ==
    LET ends == {j \in (i - 1)..Len(s) : \A m \in i..j : s[m] \in class}
    IN  CHOOSE j \in ends : \A e \in ends : e <= j

(***************************************************************************)
(* app/validation.py: check_retrieval_quality                             *)
(***************************************************************************)
MsgNoDocs == <<"No relevant documents found in the knowledge base.">>
MsgGood == <<"Retrieval quality is good.">>
MsgLowRelevance(avg) ==
    <<"Retrieved documents have low relevance (score: ", Fmt2(avg),
      "). The answer may not be reliable.">>

\* doc.metadata.get("relevance_score", 0.0)
GetRelevance(doc) == IF doc.has_score THEN doc.relevance_score ELSE RZero

\* the threshold test written "<=" for "<"
check_retrieval_quality_StrictThreshold(docs) ==
    IF docs = <<>> THEN <<FALSE, RZero, MsgNoDocs>>
    ELSE LET scores == [i \in 1..Len(docs) |-> GetRelevance(docs[i])]
             avg_score == RDivInt(RSum(scores), Len(scores))
         IN  IF RLe(avg_score, MIN_RELEVANCE_SCORE)
             THEN <<FALSE, avg_score, MsgLowRelevance(avg_score)>>
             ELSE <<TRUE, avg_score, MsgGood>>

check_retrieval_quality(docs) ==
    IF docs = <<>> THEN <<FALSE, RZero, MsgNoDocs>>
    ELSE LET scores == [i \in 1..Len(docs) |-> GetRelevance(docs[i])]
             avg_score == RDivInt(RSum(scores), Len(scores))
         IN  IF RLt(avg_score, MIN_RELEVANCE_SCORE)
             THEN <<FALSE, avg_score, MsgLowRelevance(avg_score)>>
             ELSE <<TRUE, avg_score, MsgGood>>

(***************************************************************************)
(* app/validation.py: validate_response_faithfulness                      *)
(***************************************************************************)
\* index of the first occurrence of symbol m in text, 0 when absent
IndexOf(text, m) ==
    IF \E i \in 1..Len(text) : text[i] = m
    THEN CHOOSE i \in 1..Len(text) : text[i] = m /\ \A j \in 1..(i - 1) : text[j] # m
    ELSE 0

\* text.split(m)[0]
BeforeFirst(text, m) ==
    IF IndexOf(text, m) = 0 THEN text ELSE SubSeq(text, 1, IndexOf(text, m) - 1)

\* text.split(m)[1]; only used where m occurs in text
SplitSecond(text, m) ==
    BeforeFirst(SubSeq(text, IndexOf(text, m) + 1, Len(text)), m)

\* text.strip()
Strip(text) ==
    LET keep == {i \in 1..Len(text) : text[i] \notin Whitespace}
    IN  IF keep = {} THEN <<>>
        ELSE SubSeq(text, CHOOSE i \in keep : \A j \in keep : i <= j,
                          CHOOSE i \in keep : \A j \in keep : j <= i)

\* str.upper() on the words the fact-checker answers with
UpperSym(c) == IF c \in {"yes", "Yes"} THEN "YES" ELSE IF c \in {"no", "No"} THEN "NO" ELSE c
UpperText(text) == [i \in 1..Len(text) |-> UpperSym(text[i])]

\* the numerals float() accepts, among the symbols of the model
FloatValue(c) ==
    CASE c = "0.0" -> <<0, 1>>
      [] c = "0.2" -> <<1, 5>>
      [] c = "0.5" -> <<1, 2>>
      [] c = "0.9" -> <<9, 10>>
      [] c = "1.0" -> <<1, 1>>
      [] c = "1.5" -> <<3, 2>>
      [] c = "-0.5" -> <<-1, 2>>
Numerals == {"0.0", "0.2", "0.5", "0.9", "1.0", "1.5", "-0.5"}
\* float(text) raises ValueError unless text is one numeral
FloatParses(text) == Len(text) = 1 /\ text[1] \in Numerals

MsgDisabled == <<"Faithfulness check disabled">>
MsgCompleted == <<"Validation completed">>
ErrIndex == <<"list index out of range">>

\* lines 95-106: the parse of the collaborator's text
ParseFaithfulness(result) ==
    LET faithful == Contains(UpperText(BeforeFirst(SplitSecond(result, "FAITHFUL:"), "\n")),
                             <<"YES">>)
        confidence_str == Strip(BeforeFirst(SplitSecond(result, "CONFIDENCE:"), "\n"))
        confidence ==
            IF IndexOf(result, "CONFIDENCE:") # 0 /\ FloatParses(confidence_str)
            THEN FloatValue(confidence_str[1])
            ELSE IF faithful THEN <<7, 10>> ELSE <<3, 10>>
        explanation ==
            IF IndexOf(result, "EXPLANATION:") # 0
            THEN Strip(SplitSecond(result, "EXPLANATION:"))
            ELSE MsgCompleted
    IN  <<faithful, confidence, explanation>>

\* the except branch returning a not-faithful verdict
validate_response_faithfulness_FailsClosed(call) ==
    IF ~ENABLE_FAITHFULNESS_CHECK THEN <<TRUE, ROne, MsgDisabled>>
    ELSE IF call.raised THEN <<FALSE, RZero, <<"Validation error: ">> \o call.error>>
    ELSE IF IndexOf(call.text, "FAITHFUL:") = 0
         THEN <<TRUE, <<1, 2>>, <<"Validation error: ">> \o ErrIndex>>
    ELSE ParseFaithfulness(call.text)

\* `call` is what the generation collaborator did: raised (constructing the
\* client or invoking the chain) with an error text, or returned a text
validate_response_faithfulness(call) ==
    IF ~ENABLE_FAITHFULNESS_CHECK THEN <<TRUE, ROne, MsgDisabled>>
    ELSE IF call.raised THEN <<TRUE, <<1, 2>>, <<"Validation error: ">> \o call.error>>
    ELSE IF IndexOf(call.text, "FAITHFUL:") = 0
         THEN <<TRUE, <<1, 2>>, <<"Validation error: ">> \o ErrIndex>>
    ELSE ParseFaithfulness(call.text)

(***************************************************************************)
(* app/validation.py: check_for_hallucinated_numbers                      *)
(***************************************************************************)
\* r'\$[\d,]+(?:\.\d{2})?' anchored at i: index of the last matched symbol, 0: no match
AmountEnd(s, i) ==
    IF At(s, i) # "$" THEN 0
    ELSE LET j == RunEnd(s, i + 1, Digits \cup {","})
         IN  IF j < i + 1 THEN 0
             ELSE IF At(s, j + 1) = "." /\ At(s, j + 2) \in Digits /\ At(s, j + 3) \in Digits
                  THEN j + 3
                  ELSE j

\* [-\s]?\d{4}[-\s]?\d{4,6} anchored at p: index of the last matched symbol, 0: no match
PolicyTailEnd(s, p) ==
    LET IsSep(c) == c = "-" \/ c \in Whitespace
        p1 == IF IsSep(At(s, p)) THEN p + 1 ELSE p
        p2 == p1 + 4
        p3 == IF IsSep(At(s, p2)) THEN p2 + 1 ELSE p2
        run == Min(RunEnd(s, p3, Digits) - p3 + 1, 6)
    IN  IF (\A m \in p1..(p1 + 3) : At(s, m) \in Digits) /\ run >= 4
        THEN p3 + run - 1
        ELSE 0

\* r'[A-Z]{2,4}[-\s]?\d{4}[-\s]?\d{4,6}' anchored at i (greedy, backtracking 4, 3, 2)
PolicyEnd(s, i) ==
    LET Letters(n) == \A m \in i..(i + n - 1) : At(s, m) \in UpperLetters
        Ok(n) == Letters(n) /\ PolicyTailEnd(s, i + n) # 0
    IN  IF Ok(4) THEN PolicyTailEnd(s, i + 4)
        ELSE IF Ok(3) THEN PolicyTailEnd(s, i + 3)
        ELSE IF Ok(2) THEN PolicyTailEnd(s, i + 2)
        ELSE 0

RECURSIVE FindAmountsFrom(_, _)
FindAmountsFrom(s, i) ==
    IF i > Len(s) THEN <<>>
    ELSE IF AmountEnd(s, i) = 0 THEN FindAmountsFrom(s, i + 1)
    ELSE <<SubSeq(s, i, AmountEnd(s, i))>> \o FindAmountsFrom(s, AmountEnd(s, i) + 1)

RECURSIVE FindPolicyNumsFrom(_, _)
FindPolicyNumsFrom(s, i) ==
    IF i > Len(s) THEN <<>>
    ELSE IF PolicyEnd(s, i) = 0 THEN FindPolicyNumsFrom(s, i + 1)
    ELSE <<SubSeq(s, i, PolicyEnd(s, i))>> \o FindPolicyNumsFrom(s, PolicyEnd(s, i) + 1)

\* re.findall(r'\$[\d,]+(?:\.\d{2})?', answer)
FindAmounts(answer) == FindAmountsFrom(answer, 1)
\* re.findall(r'[A-Z]{2,4}[-\s]?\d{4}[-\s]?\d{4,6}', answer)
FindPolicyNums(answer) == FindPolicyNumsFrom(answer, 1)

AmountFlag(amount) == <<"Amount ">> \o amount \o <<" not found in policy documents">>
PolicyFlag(num) == <<"Policy number ">> \o num \o <<" not found in documents">>

RECURSIVE FlagMissing(_, _, _)
\* the loops of lines 131-138: one flag per token that is not in context, in order
FlagMissing(tokens, context, isAmount) ==
    IF tokens = <<>> THEN <<>>
    ELSE (IF Contains(context, tokens[1]) THEN <<>>
          ELSE IF isAmount THEN <<AmountFlag(tokens[1])>> ELSE <<PolicyFlag(tokens[1])>>)
         \o FlagMissing(Tail(tokens), context, isAmount)

\* the two loops in the other order
check_for_hallucinated_numbers_PolicyFirst(answer, context) ==
    FlagMissing(FindPolicyNums(answer), context, FALSE)
        \o FlagMissing(FindAmounts(answer), context, TRUE)

check_for_hallucinated_numbers(answer, context) ==
    FlagMissing(FindAmounts(answer), context, TRUE)
        \o FlagMissing(FindPolicyNums(answer), context, FALSE)

(***************************************************************************)
(* app/validation.py: confidence scorer, gate, disclaimer, refusal        *)
(***************************************************************************)
\* the "high" threshold written ">" for ">="
ConfidenceLevel_Strict(confidence) ==
    IF RLt(<<4, 5>>, confidence) THEN "high"
    ELSE IF RGe(confidence, <<3, 5>>) THEN "medium"
    ELSE "low"

ConfidenceLevel(confidence) ==
    IF RGe(confidence, <<4, 5>>) THEN "high"
    ELSE IF RGe(confidence, <<3, 5>>) THEN "medium"
    ELSE "low"

calculate_confidence_score(retrieval_score, faithfulness_score, has_specific_citations) ==
    LET confidence ==
            RAdd(RAdd(RMul(retrieval_score, <<2, 5>>),
                      RMul(faithfulness_score, <<2, 5>>)),
                 RMul(IF has_specific_citations THEN ROne ELSE <<1, 2>>, <<1, 5>>))
    IN  <<confidence, ConfidenceLevel(confidence)>>

ReasonNoDocs ==
    <<"No relevant policy documents found. Please ensure documents have been ingested.">>
ReasonInsufficient(message) ==
    <<"Insufficient context to provide a reliable answer. ">> \o message

\* the sufficiency test made before the emptiness test
should_answer_question_SufficiencyFirst(docs, retrieval_quality) ==
    LET is_sufficient == retrieval_quality[1]
        message == retrieval_quality[3]
    IN  IF is_sufficient THEN <<TRUE, <<>>>>
        ELSE IF docs = <<>> THEN <<FALSE, ReasonNoDocs>>
        ELSE <<FALSE, ReasonInsufficient(message)>>

should_answer_question(docs, retrieval_quality) ==
    LET is_sufficient == retrieval_quality[1]
        message == retrieval_quality[3]
    IN  IF docs = <<>> THEN <<FALSE, ReasonNoDocs>>
        ELSE IF ~is_sufficient THEN <<FALSE, ReasonInsufficient(message)>>
        ELSE <<TRUE, <<>>>>

LowDisclaimer(confidence_score) ==
    <<"\n\n", "**Low Confidence (", Fmt2(confidence_score),
      ")**: This answer has low confidence.">>
MediumDisclaimer(confidence_score) ==
    <<"\n\n", "**Medium Confidence (", Fmt2(confidence_score),
      ")**: This answer is based on available information.">>

\* a disclaimer that takes the place of a low-confidence answer
add_confidence_disclaimer_Replaces(answer, confidence_level, confidence_score) ==
    IF confidence_level = "low" THEN LowDisclaimer(confidence_score)
    ELSE IF confidence_level = "medium" THEN answer \o MediumDisclaimer(confidence_score)
    ELSE answer

add_confidence_disclaimer(answer, confidence_level, confidence_score) ==
    IF confidence_level = "low" THEN answer \o LowDisclaimer(confidence_score)
    ELSE IF confidence_level = "medium" THEN answer \o MediumDisclaimer(confidence_score)
    ELSE answer

generate_insufficient_context_response(question, reason) ==
    <<"I don't have enough information in the available policy documents to answer your question reliably.",
      "\n\n", "**Your Question:** ">> \o question
    \o <<"\n\n", "**Issue:** ">> \o reason
    \o <<"\n\n", "**Suggestions:**">>

(***************************************************************************)
(* Chunks.  A chunk is a record: source (file name), content (text),      *)
(* policy_type ("" when absent), policy_number (<<>> for None),           *)
(* is_default_doc, section and page ("" when absent).  A retrieved        *)
(* document adds has_score / relevance_score: whether retrieval wrote     *)
(* metadata["relevance_score"], and its value.                            *)
(***************************************************************************)
Chars(n) ==
    CASE n = "2500" -> <<"$", "2", ",", "5", "0", "0">>
      [] n = "5000" -> <<"$", "5", ",", "0", "0", "0">>
      [] n = "polnum" -> <<"A", "B", "-", "1", "2", "3", "4", "-", "5", "6", "7", "8">>

ChunkP1 ==
    [source |-> "my_auto_policy.pdf",
     content |-> <<"deductible", " ">> \o Chars("2500"),
     policy_type |-> "auto", policy_number |-> Chars("polnum"),
     is_default_doc |-> FALSE, section |-> "Section 2", page |-> "Page 5"]
ChunkP2 ==
    [source |-> "my_home_policy.pdf",
     content |-> <<"dwelling", " ">> \o Chars("5000"),
     policy_type |-> "homeowners", policy_number |-> <<>>,
     is_default_doc |-> FALSE, section |-> "", page |-> ""]
ChunkG1 ==
    [source |-> "auto_guide.txt",
     content |-> <<"deductible", " ", "guide">>,
     policy_type |-> "auto", policy_number |-> <<>>,
     is_default_doc |-> TRUE, section |-> "Section 1", page |-> ""]
\* the same source and the same leading text as ChunkG1, on another page
ChunkG1b ==
    [source |-> "auto_guide.txt",
     content |-> <<"deductible", " ", "guide">>,
     policy_type |-> "auto", policy_number |-> <<>>,
     is_default_doc |-> TRUE, section |-> "Section 1", page |-> "Page 2"]

\* the chunk lists an ingestion run can produce (line 311)
Corpora == {<<ChunkP1, ChunkG1>>, <<ChunkG1, ChunkP2, ChunkG1b>>}

\* str.lower() on the policy types of the model
LowerSym(c) == IF c = "Auto" THEN "auto" ELSE IF c = "My" THEN "my" ELSE c
LowerText(text) == [i \in 1..Len(text) |-> LowerSym(text[i])]

AsDoc(chunk) ==
    [source |-> chunk.source, content |-> chunk.content,
     policy_type |-> chunk.policy_type, policy_number |-> chunk.policy_number,
     is_default_doc |-> chunk.is_default_doc, section |-> chunk.section,
     page |-> chunk.page, has_score |-> FALSE, relevance_score |-> RZero]

WithScore(doc, score) == [doc EXCEPT !.has_score = TRUE, !.relevance_score = score]

(***************************************************************************)
(* app/rag_pipeline.py: detect_personal_query_intent                      *)
(***************************************************************************)
personal_indicators ==
    << <<"m", "y", " ">>, <<"a", "m", " ", "i", " ">>, <<"d", "o", " ", "i", " ">>,
       <<"d", "o", "e", "s", " ", "m", "y">>, <<"i", "s", " ", "m", "y">>,
       <<"w", "i", "l", "l", " ", "m", "y">>,
       <<"w", "h", "a", "t", " ", "i", "s", " ", "m", "y">>,
       <<"w", "h", "a", "t", "'", "s", " ", "m", "y">>,
       <<"h", "o", "w", " ", "m", "u", "c", "h", " ", "i", "s", " ", "m", "y">>,
       <<"u", "n", "d", "e", "r", " ", "m", "y">>,
       <<"i", "n", " ", "m", "y", " ", "p", "o", "l", "i", "c", "y">>,
       <<"m", "y", " ", "c", "o", "v", "e", "r", "a", "g", "e">>,
       <<"i", " ", "a", "m", " ">>, <<"i", " ", "h", "a", "v", "e">> >>

\* str.lower() on the letters of the queries of the model
LowerChar(c) ==
    CASE c = "M" -> "m" [] c = "I" -> "i" [] c = "A" -> "a" [] c = "D" -> "d"
      [] OTHER -> c
LowerQuery(query) == [i \in 1..Len(query) |-> LowerChar(query[i])]

detect_personal_query_intent(query) ==
    \E n \in 1..Len(personal_indicators) :
        Contains(LowerQuery(query), personal_indicators[n])

(***************************************************************************)
(* app/rag_pipeline.py: _semantic_retrieve                                *)
(***************************************************************************)
\* the predicate lines 438-449 hand to the vector store
where_filter(chunk, policy_type, policy_number) ==
    /\ (policy_type # "" => chunk.policy_type = LowerSym(policy_type))
    /\ (policy_number # <<>> => chunk.policy_number = policy_number)

Count(seq, x) == Cardinality({i \in 1..Len(seq) : seq[i] = x})
Range(seq) == {seq[i] : i \in 1..Len(seq)}

\* What the vector store can answer to a search for k results under the
\* predicate: stored chunks that satisfy it, each at most as often as it is
\* stored, at most k of them, in any order (similarity is the store's own).
SemanticAnswers(store, k, policy_type, policy_number, maxLen) ==
    LET match == {c \in Range(store) : where_filter(c, policy_type, policy_number)}
    IN  {r \in UNION {[1..n -> match] : n \in 0..Min(k, maxLen)} :
            \A c \in match : Count(r, c) <= Count(store, c)}

\* a retriever that marks each document it returns as fully relevant
semantic_retrieve_Scored(answer) ==
    [i \in 1..Len(answer) |-> WithScore(AsDoc(answer[i]), ROne)]

\* _semantic_retrieve returns the store's answer as documents, untouched
semantic_retrieve(answer) == [i \in 1..Len(answer) |-> AsDoc(answer[i])]

(***************************************************************************)
(* app/rag_pipeline.py: _hybrid_retrieve                                  *)
(***************************************************************************)
PERSONAL_POLICY_BOOST == <<3, 2>>
IdPrefixLen == 50

\* sorted(range(len(keys)), key=lambda i: keys[i], reverse=True): the indices
\* by decreasing key, equal keys in their original order (Python's sort is
\* stable, also with reverse=True)
\* a sort that is not stable: equal keys in reverse of their original order
SortedDesc_TiesReversed(keys) ==
    LET n == Len(keys)
        rank(i) == 1 + Cardinality({j \in 1..n :
                        RLt(keys[i], keys[j]) \/ (keys[j] = keys[i] /\ j > i)})
    IN  [p \in 1..n |-> CHOOSE i \in 1..n : rank(i) = p]

SortedDesc(keys) ==
    LET n == Len(keys)
        rank(i) == 1 + Cardinality({j \in 1..n :
                        RLt(keys[i], keys[j]) \/ (keys[j] = keys[i] /\ j < i)})
    IN  [p \in 1..n |-> CHOOSE i \in 1..n : rank(i) = p]

\* max(bm25_scores); on the empty list max() raises (see retrieve_raises)
MaxOf(scores) == CHOOSE m \in Range(scores) : \A x \in Range(scores) : x <= m

\* f"{source}_{page_content[:50]}"
DocId(doc) == <<doc.source, "_">> \o Prefix(doc.content, IdPrefixLen)

\* the boost of lines 525-526 and 539-540
IsPersonal(doc) == ~doc.is_default_doc
Boost(doc, prefer_personal) ==
    IF prefer_personal /\ IsPersonal(doc) THEN PERSONAL_POLICY_BOOST ELSE ROne

\* doc_scores is a dict: a list of entries in insertion order, one per key;
\* assigning to a key that is present replaces the value and keeps the place
DictIndex(d, id) ==
    IF \E i \in 1..Len(d) : d[i].id = id THEN CHOOSE i \in 1..Len(d) : d[i].id = id ELSE 0

\* an assignment that always adds an entry
DictSet_Append(d, entry) == Append(d, entry)

DictSet(d, entry) ==
    IF DictIndex(d, entry.id) = 0 THEN Append(d, entry)
    ELSE [d EXCEPT ![DictIndex(d, entry.id)] = entry]

\* the filter of lines 515-518
LexicalFilter(chunk, policy_type, policy_number) ==
    /\ ~(policy_type # "" /\ LowerSym(chunk.policy_type) # LowerSym(policy_type))
    /\ ~(policy_number # <<>> /\ chunk.policy_number # policy_number)

\* one iteration of the loop of lines 512-532
LexicalEntry(chunk, score, max_bm25, prefer_personal) ==
    LET normalized_bm25 == Rat(score, max_bm25)
        base_score == RMul(BM25_WEIGHT, normalized_bm25)
    IN  [id |-> DocId(chunk), doc |-> AsDoc(chunk),
         score |-> RMul(base_score, Boost(chunk, prefer_personal)),
         is_personal |-> IsPersonal(chunk)]

RECURSIVE LexicalLoop(_, _, _)
\* env: all_chunks, bm25_scores, max_bm25, policy_type, policy_number, prefer_personal
LexicalLoop(indices, doc_scores, env) ==
    IF indices = <<>> THEN doc_scores
    ELSE LET chunk == env.all_chunks[indices[1]]
         IN  IF ~LexicalFilter(chunk, env.policy_type, env.policy_number)
             THEN LexicalLoop(Tail(indices), doc_scores, env)
             ELSE LexicalLoop(Tail(indices),
                      DictSet(doc_scores,
                              LexicalEntry(chunk, env.bm25_scores[indices[1]],
                                           env.max_bm25, env.prefer_personal)),
                      env)

RECURSIVE SemanticLoop(_, _, _)
\* the loop of lines 535-551
SemanticLoop(semantic_docs, doc_scores, prefer_personal) ==
    IF semantic_docs = <<>> THEN doc_scores
    ELSE LET doc == semantic_docs[1]
             semantic_score == RMul(RMul(SEMANTIC_WEIGHT, ROne), Boost(doc, prefer_personal))
             at == DictIndex(doc_scores, DocId(doc))
             next ==
                 IF at # 0
                 THEN [doc_scores EXCEPT ![at].score = RAdd(@, semantic_score)]
                 ELSE Append(doc_scores,
                             [id |-> DocId(doc), doc |-> doc, score |-> semantic_score,
                              is_personal |-> IsPersonal(doc)])
         IN  SemanticLoop(Tail(semantic_docs), next, prefer_personal)

\* the fusion without the [:k] of line 558
hybrid_retrieve_Untruncated(k, policy_type, policy_number, prefer_personal, all_chunks, bm25_scores, semantic_docs) ==
    LET bm25_keys == [i \in 1..Len(bm25_scores) |-> Rat(bm25_scores[i], 1)]
        bm25_top_indices == Prefix(SortedDesc(bm25_keys), k * 2)
        max_bm25 == IF MaxOf(bm25_scores) > 0 THEN MaxOf(bm25_scores) ELSE 1
        env == [all_chunks |-> all_chunks, bm25_scores |-> bm25_scores,
                max_bm25 |-> max_bm25, policy_type |-> policy_type,
                policy_number |-> policy_number, prefer_personal |-> prefer_personal]
        lexical == LexicalLoop(bm25_top_indices, <<>>, env)
        doc_scores == SemanticLoop(semantic_docs, lexical, prefer_personal)
        keys == [i \in 1..Len(doc_scores) |-> doc_scores[i].score]
        order == SortedDesc(keys)
    IN  [p \in 1..Len(order) |->
            WithScore(doc_scores[order[p]].doc, doc_scores[order[p]].score)]

\* all_chunks, bm25_scores: the pickled index and the scores rank_bm25 gives
\* the query (one per chunk); semantic_docs: what _semantic_retrieve(k * 2)
\* returned.  The result is the ranked list; all_chunks is not empty here: over
\* an empty index the call raises (retrieve_raises).
hybrid_retrieve(k, policy_type, policy_number, prefer_personal, all_chunks, bm25_scores, semantic_docs) ==
    LET bm25_keys == [i \in 1..Len(bm25_scores) |-> Rat(bm25_scores[i], 1)]
        bm25_top_indices == Prefix(SortedDesc(bm25_keys), k * 2)
        max_bm25 == IF MaxOf(bm25_scores) > 0 THEN MaxOf(bm25_scores) ELSE 1
        env == [all_chunks |-> all_chunks, bm25_scores |-> bm25_scores,
                max_bm25 |-> max_bm25, policy_type |-> policy_type,
                policy_number |-> policy_number, prefer_personal |-> prefer_personal]
        lexical == LexicalLoop(bm25_top_indices, <<>>, env)
        doc_scores == SemanticLoop(semantic_docs, lexical, prefer_personal)
        keys == [i \in 1..Len(doc_scores) |-> doc_scores[i].score]
        order == Prefix(SortedDesc(keys), k)
    IN  [p \in 1..Len(order) |->
            WithScore(doc_scores[order[p]].doc, doc_scores[order[p]].score)]

(***************************************************************************)
(* app/rag_pipeline.py: format_docs_with_citations, extract_sources       *)
(***************************************************************************)
IsDefault(doc) == doc.is_default_doc

Citation(doc, label, withNumber) ==
    <<label, doc.source>>
    \o (IF withNumber /\ doc.policy_number # <<>>
        THEN <<", ", "Policy #: ">> \o doc.policy_number ELSE <<>>)
    \o (IF doc.policy_type # "" THEN <<", ", "Type: ", doc.policy_type>> ELSE <<>>)
    \o (IF doc.section # "" THEN <<", ", doc.section>> ELSE <<>>)
    \o (IF doc.page # "" THEN <<", ", doc.page>> ELSE <<>>)
    \o <<"]">>

PersonalPart(doc, i) ==
    <<"\n--- Personal Policy Document ", ToString(i), " ">>
    \o Citation(doc, "[PERSONAL POLICY | Source: ", TRUE) \o <<" ---\n">> \o doc.content
DefaultPart(doc, i) ==
    <<"\n--- General Guide ", ToString(i), " ">>
    \o Citation(doc, "[GENERAL GUIDE | Source: ", FALSE) \o <<" ---\n">> \o doc.content

format_docs_with_citations(docs) ==
    LET personal_docs == SelectSeq(docs, IsPersonal)
        default_docs == SelectSeq(docs, IsDefault)
        rule == <<"================">>
        formatted_parts ==
            (IF personal_docs # <<>>
             THEN <<rule, <<"PERSONAL POLICY DOCUMENTS (User's Actual Coverage)">>, rule>>
                  \o [i \in 1..Len(personal_docs) |-> PersonalPart(personal_docs[i], i)]
             ELSE <<>>)
            \o
            (IF default_docs # <<>>
             THEN << <<"\n">> \o rule,
                     <<"GENERAL INSURANCE GUIDES (Educational Reference Only)">>, rule>>
                  \o [i \in 1..Len(default_docs) |-> DefaultPart(default_docs[i], i)]
             ELSE <<>>)
    IN  Join(formatted_parts, <<"\n\n">>)

\* list(set(...)): the order of a set is not defined, the model keeps the set
extract_sources_from_docs(docs) ==
    {docs[i].source : i \in {j \in 1..Len(docs) : docs[j].source # ""}}

(***************************************************************************)
(* app/rag_pipeline.py: retrieve_with_metadata_filter                     *)
(***************************************************************************)
\* whether line 421 takes the hybrid branch
UsesHybrid(bm25_file_exists) == HYBRID_SEARCH_ENABLED /\ bm25_file_exists

\* the k the vector store is asked for: k * 2 from _hybrid_retrieve (line 502),
\* k on the fallback (line 425)
SemanticK(k, bm25_file_exists) == IF UsesHybrid(bm25_file_exists) THEN k * 2 ELSE k

\* lines 417-419: the preference is detected from the query only when the
\* caller gave none; prefer_personal is "None", "True" or "False"
\* a dispatcher that detects the preference whatever the caller gave
effective_prefer_AlwaysDetects(query, prefer_personal) ==
    detect_personal_query_intent(query)

effective_prefer(query, prefer_personal) ==
    IF prefer_personal = "None" THEN detect_personal_query_intent(query)
    ELSE prefer_personal = "True"

\* max() of the empty score list at line 511
EmptyMaxError == <<"max() arg is an empty sequence">>

\* Whether the call ends in an exception instead of a list. Neither line
\* 425 nor line 502 has a handler, so an error of the vector store leaves the
\* call as it is; on the hybrid branch an index over no chunk has no maximum
\* score.
retrieve_raises(bm25_file_exists, all_chunks, store_raised) ==
    store_raised \/ (UsesHybrid(bm25_file_exists) /\ all_chunks = <<>>)

\* store_answer is the vector store's answer to the one search this call
\* makes; the value of a call that does not raise
retrieve_with_metadata_filter(query, k, policy_type, policy_number, prefer_personal, bm25_file_exists, all_chunks, bm25_scores, store_answer) ==
    LET prefer == effective_prefer(query, prefer_personal)
    IN  IF UsesHybrid(bm25_file_exists)
        THEN hybrid_retrieve(k, policy_type, policy_number, prefer,
                             all_chunks, bm25_scores, semantic_retrieve(store_answer))
        ELSE semantic_retrieve(store_answer)

(***************************************************************************)
(* app/query.py: _parse_qa_response (answer text and citations)           *)
(***************************************************************************)
SnippetLen == 200

\* text.replace(m, "") for a one-symbol marker
Remove(text, m) == SelectSeq(text, LAMBDA c : c # m)

ParsedAnswer(response) ==
    IF Contains(response, <<"ANSWER:">>)
    THEN Strip(Remove(BeforeFirst(response, "COVERAGE LIMITS:"), "ANSWER:"))
    ELSE response

HasCitation(doc) == doc.section # "" \/ doc.page # ""

CitationOf(doc) ==
    [section |-> IF doc.section # "" THEN doc.section ELSE "Not specified",
     page |-> doc.page,
     text_snippet |-> IF Len(doc.content) > SnippetLen
                      THEN Prefix(doc.content, SnippetLen) \o <<"...">>
                      ELSE doc.content]

ParsedCitations(docs) ==
    LET cited == SelectSeq(docs, HasCitation)
    IN  [i \in 1..Len(cited) |-> CitationOf(cited[i])]

(***************************************************************************)
(* app/query.py: check_coverage and compare_policies, the parse step      *)
(***************************************************************************)
\* lines 379-383 and 481-485: the text between the first fence and the next
\* one, or the whole response when it has no fence. The three backticks of
\* a fence are the symbol <fence>, and with the language tag <fence>json.
extract_json(response) ==
    IF IndexOf(response, "<fence>json") # 0
    THEN BeforeFirst(SplitSecond(response, "<fence>json"), "<fence>")
    ELSE IF IndexOf(response, "<fence>") # 0
    THEN SplitSecond(response, "<fence>")
    ELSE response

\* json.loads on the JSON texts the model can answer with, each one symbol,
\* as tagged values; every other text raises JSONDecodeError
json_loads(text) ==
    IF Len(text) # 1 THEN [t |-> "JSONDecodeError"]
    ELSE CASE text[1] = "{full}" ->
                [t |-> "object",
                 v |-> [is_covered |-> [t |-> "bool", v |-> TRUE],
                        coverage_determination |-> [t |-> "str", v |-> <<"covered">>],
                        exclusions_checked |->
                            [t |-> "list",
                             v |-> << [t |-> "object",
                                       v |-> [section |-> [t |-> "str", v |-> <<"4.1">>],
                                              applies |-> [t |-> "bool", v |-> FALSE]]] >>],
                        confidence |-> [t |-> "str", v |-> <<"high">>],
                        comparison_items |->
                            [t |-> "list",
                             v |-> << [t |-> "object",
                                       v |-> [policy_type |-> [t |-> "str", v |-> <<"auto">>],
                                              value |-> [t |-> "str", v |-> <<"500">>]]] >>],
                        summary |-> [t |-> "str", v |-> <<"same">>]]]
           [] text[1] = "{}" -> [t |-> "object", v |-> <<>>]
           [] text[1] = "[1]" -> [t |-> "list", v |-> << [t |-> "number"] >>]
           [] text[1] = "{lists as text}" ->
                [t |-> "object",
                 v |-> [exclusions_checked |-> [t |-> "str", v |-> <<"none">>],
                        comparison_items |-> [t |-> "str", v |-> <<"none">>]]]
           [] text[1] = "{nulls}" ->
                [t |-> "object",
                 v |-> [is_covered |-> [t |-> "null"], summary |-> [t |-> "null"]]]
           [] text[1] = "{items of numbers}" ->
                [t |-> "object",
                 v |-> [exclusions_checked |-> [t |-> "list", v |-> << [t |-> "number"] >>],
                        comparison_items |-> [t |-> "list", v |-> << [t |-> "number"] >>]]]
           [] OTHER -> [t |-> "JSONDecodeError"]

\* lines 376-420 on the model's text: the response body, or the HTTP 500 of
\* the outer handler. Only JSONDecodeError has a handler of its own (line
\* 409); .get on a value that is no dict raises AttributeError, iterating
\* null raises TypeError, and the response models reject a field of the wrong
\* type. The optional fields are left out.
check_coverage(response) ==
    LET result == json_loads(Strip(extract_json(response)))
        Get(obj, key, default) == IF key \in DOMAIN obj.v THEN obj.v[key] ELSE default
        failed(e) == [kind |-> "http500", detail |-> <<"Coverage check failed: ", e>>]
    IN  IF result.t = "JSONDecodeError"
        THEN [kind |-> "response", is_covered |-> FALSE, coverage_determination |-> response,
              exclusions_checked |-> <<>>, confidence |-> <<"low">>]
        ELSE IF result.t # "object" THEN failed("AttributeError")
        ELSE LET listed == Get(result, "exclusions_checked", [t |-> "list", v |-> <<>>])
                 excs == IF listed.t = "str" /\ listed.v = <<>>
                         THEN [t |-> "list", v |-> <<>>] ELSE listed
             IN  IF excs.t = "null" THEN failed("TypeError")
                 ELSE IF excs.t # "list" THEN failed("AttributeError")
                 ELSE IF \E i \in 1..Len(excs.v) : excs.v[i].t # "object"
                 THEN failed("AttributeError")
                 ELSE LET exclusions ==
                              [i \in 1..Len(excs.v) |->
                                  [section |-> Get(excs.v[i], "section",
                                                   [t |-> "str", v |-> <<"Unknown">>]),
                                   description |-> Get(excs.v[i], "description",
                                                       [t |-> "str", v |-> <<>>]),
                                   applies |-> Get(excs.v[i], "applies",
                                                   [t |-> "bool", v |-> FALSE])]]
                          is_covered == Get(result, "is_covered", [t |-> "bool", v |-> FALSE])
                          determination == Get(result, "coverage_determination",
                                               [t |-> "str", v |-> <<"Unable to determine">>])
                          level == Get(result, "confidence", [t |-> "str", v |-> <<"medium">>])
                      IN  IF \/ \E i \in 1..Len(exclusions) :
                                   \/ exclusions[i].section.t # "str"
                                   \/ exclusions[i].description.t # "str"
                                   \/ exclusions[i].applies.t # "bool"
                             \/ is_covered.t # "bool"
                             \/ determination.t # "str"
                             \/ level.t # "str"
                          THEN failed("ValidationError")
                          ELSE [kind |-> "response", is_covered |-> is_covered.v,
                                coverage_determination |-> determination.v,
                                exclusions_checked |->
                                    [i \in 1..Len(exclusions) |->
                                        [section |-> exclusions[i].section.v,
                                         description |-> exclusions[i].description.v,
                                         applies |-> exclusions[i].applies.v]],
                                confidence |-> level.v]

\* lines 479-516, in the same way
compare_policies(response, comparison_query) ==
    LET result == json_loads(Strip(extract_json(response)))
        Get(obj, key, default) == IF key \in DOMAIN obj.v THEN obj.v[key] ELSE default
        failed(e) == [kind |-> "http500", detail |-> <<"Comparison failed: ", e>>]
    IN  IF result.t = "JSONDecodeError"
        THEN [kind |-> "response", comparison_type |-> comparison_query,
              comparison_items |-> <<>>, summary |-> response]
        ELSE IF result.t # "object" THEN failed("AttributeError")
        ELSE LET listed == Get(result, "comparison_items", [t |-> "list", v |-> <<>>])
                 its == IF listed.t = "str" /\ listed.v = <<>>
                        THEN [t |-> "list", v |-> <<>>] ELSE listed
             IN  IF its.t = "null" THEN failed("TypeError")
                 ELSE IF its.t # "list" THEN failed("AttributeError")
                 ELSE IF \E i \in 1..Len(its.v) : its.v[i].t # "object"
                 THEN failed("AttributeError")
                 ELSE LET items ==
                              [i \in 1..Len(its.v) |->
                                  [policy_type |-> Get(its.v[i], "policy_type",
                                                       [t |-> "str", v |-> <<"Unknown">>]),
                                   value |-> Get(its.v[i], "value",
                                                 [t |-> "str", v |-> <<"Not found">>])]]
                          comparison_type == Get(result, "comparison_type",
                                                 [t |-> "str", v |-> comparison_query])
                          summary == Get(result, "summary", [t |-> "str", v |-> <<>>])
                      IN  IF \/ \E i \in 1..Len(items) :
                                   \/ items[i].policy_type.t # "str"
                                   \/ items[i].value.t # "str"
                             \/ comparison_type.t # "str"
                             \/ summary.t # "str"
                          THEN failed("ValidationError")
                          ELSE [kind |-> "response", comparison_type |-> comparison_type.v,
                                comparison_items |->
                                    [i \in 1..Len(items) |->
                                        [policy_type |-> items[i].policy_type.v,
                                         value |-> items[i].value.v]],
                                summary |-> summary.v]

(***************************************************************************)
(* app/evaluation.py: calculate_mrr, calculate_ndcg                       *)
(***************************************************************************)
\* lines 29-32: the reciprocal of the first position whose source contains
\* relevant_source
calculate_mrr(retrieved_docs, relevant_source) ==
    LET hits == {i \in 1..Len(retrieved_docs) :
                    Contains(retrieved_docs[i].source, relevant_source)}
    IN  IF hits = {} THEN RZero
        ELSE Rat(1, CHOOSE i \in hits : \A h \in hits : i <= h)

\* lines 46-59: the gain of position i (from 1) is divided by i + 1; the
\* ideal sum runs over i from 0 below min(len(relevant_sources),
\* len(retrieved_docs)) and divides by i + 1
calculate_ndcg(retrieved_docs, relevant_sources) ==
    IF retrieved_docs = <<>> \/ relevant_sources = <<>> THEN RZero
    ELSE LET relevance(i) ==
                 IF \E r \in 1..Len(relevant_sources) :
                        Contains(retrieved_docs[i].source, relevant_sources[r])
                 THEN ROne ELSE RZero
             dcg == RSum([i \in 1..Len(retrieved_docs) |-> RDivInt(relevance(i), i + 1)])
             idcg == RSum([n \in 1..Min(Len(relevant_sources), Len(retrieved_docs)) |->
                              Rat(1, (n - 1) + 1)])
         IN  IF RLt(RZero, idcg) THEN RMul(dcg, <<idcg[2], idcg[1]>>) ELSE RZero

(***************************************************************************)
(* The inputs of the model                                                *)
(***************************************************************************)
MaxIngests == 1
MaxBm25Score == 1
MaxSemantic == 2

Questions == {<<"M", "y", " ", "d">>, <<"i", "s", " ", "x">>}
PolicyTypes == {"", "Auto"}
PolicyNumbers == {<<>>, Chars("polnum")}

\* texts the generation collaborator can answer the question with
Responses ==
    { <<"ANSWER:", " ", "deductible", " ">> \o Chars("2500")
          \o <<"\n", "COVERAGE LIMITS:", " ", "Not applicable">>,
      <<"deductible", " ">> \o Chars("5000"),
      <<"deductible", " ">> \o Chars("2500") \o <<",", " ", "per", " ", "claim">>,
      <<"ANSWER:", " ", "see", " ">> \o Chars("polnum"),
      <<"no", " ", "figures">> }

\* texts the generation collaborator can answer the fact-checking prompt with
FaithTexts ==
    { <<"FAITHFUL:", " ", "YES", "\n", "CONFIDENCE:", " ", "0.9", "\n",
        "EXPLANATION:", " ", "supported">>,
      <<"FAITHFUL:", " ", "NO", "\n", "CONFIDENCE:", " ", "0.2", "\n",
        "EXPLANATION:", " ", "unsupported">>,
      <<"FAITHFUL:", " ", "NO", "\n", "CONFIDENCE:", " ", "1.0">>,
      <<"FAITHFUL:", " ", "yes", "\n", "CONFIDENCE:", " ", "high">>,
      <<"I", " ", "cannot", " ", "tell">> }

CollaboratorErrors == {<<"Connection error.">>}

FaithCalls ==
    {[raised |-> TRUE, error |-> e, text |-> <<>>] : e \in CollaboratorErrors}
    \cup {[raised |-> FALSE, error |-> <<>>, text |-> t] : t \in FaithTexts}

(***************************************************************************)
(* State.  The two indexes on disk, and one /query request at a time      *)
(* (section 5 of the design: single-threaded, ingestion serialised with   *)
(* queries).                                                              *)
(***************************************************************************)
VARIABLES
    bm25_exists,        \* os.path.exists(BM25_INDEX_PATH)
    bm25_chunks,        \* bm25_data["chunks"] of the pickled index
    vectordb,           \* the chunks held by the Chroma collection, in insertion order
    ingests,            \* ingestion runs so far
    pc,                 \* where query_documents is
    request,            \* the QueryRequest
    docs,               \* query_documents: docs
    retrieval_quality,  \* query_documents: retrieval_quality
    gate,               \* query_documents: (can_answer, reason)
    context,            \* query_documents: context
    sources,            \* query_documents: sources
    response,           \* query_documents: response (the generated text)
    answer,             \* query_documents: answer
    citations,          \* query_documents: citations
    faith_call,         \* what the collaborator did when asked to fact-check
    faith,              \* (is_faithful, faithfulness_score, faith_explanation)
    hallucinations,     \* query_documents: hallucinations
    confidence,         \* (confidence_score, confidence_level)
    error,              \* the exception being handled, as text
    gen_calls,          \* uses of the generation collaborator by this request
    logged,             \* metrics_tracker.log_query calls of this request
    result,             \* what the request returned
    call                \* a direct call of one validation function and its result

index == <<bm25_exists, bm25_chunks, vectordb, ingests>>
locals == <<docs, retrieval_quality, gate, context, sources, response, answer,
            citations, faith_call, faith, hallucinations, confidence, error>>
vars == <<bm25_exists, bm25_chunks, vectordb, ingests, pc, request, docs,
          retrieval_quality, gate, context, sources, response, answer, citations,
          faith_call, faith, hallucinations, confidence, error, gen_calls, logged,
          result, call>>

NoRequest == [question |-> <<>>, policy_type |-> "", policy_number |-> <<>>]
NoResult == [kind |-> "none"]
NoCall == [fn |-> "none"]
NoFaithCall == [raised |-> FALSE, error |-> <<>>, text |-> <<>>]

LocalsCleared ==
    /\ docs = <<>>
    /\ retrieval_quality = <<FALSE, RZero, <<>>>>
    /\ gate = <<FALSE, <<>>>>
    /\ context = <<>>
    /\ sources = {}
    /\ response = <<>>
    /\ answer = <<>>
    /\ citations = <<>>
    /\ faith_call = NoFaithCall
    /\ faith = <<FALSE, RZero, <<>>>>
    /\ hallucinations = <<>>
    /\ confidence = <<RZero, "">>
    /\ error = <<>>

Init ==
    /\ bm25_exists = FALSE
    /\ bm25_chunks = <<>>
    /\ vectordb = <<>>
    /\ ingests = 0
    /\ pc = "idle"
    /\ request = NoRequest
    /\ LocalsCleared
    /\ gen_calls = 0
    /\ logged = <<>>
    /\ result = NoResult
    /\ call = NoCall

(***************************************************************************)
(* app/rag_pipeline.py: ingest_documents, lines 321-344                   *)
(***************************************************************************)
\* The two indexes after a run over `chunks`. Chroma.from_documents on the
\* persisted directory adds the chunks to the collection that is there (line
\* 325); the BM25 pickle is written anew (line 343). A run that does not
\* complete ends after the collection is written and before the pickle is.
ingest_documents(store, file_exists, pickled, chunks, completes) ==
    LET writes == HYBRID_SEARCH_ENABLED /\ completes
    IN  [vectordb |-> store \o chunks,
         bm25_exists |-> (writes \/ file_exists),
         bm25_chunks |-> IF writes THEN chunks ELSE pickled]

\* a run that returns its statistics
Ingest ==
    /\ pc = "idle"
    /\ ingests < MaxIngests
    /\ \E chunks \in Corpora :
        LET after == ingest_documents(vectordb, bm25_exists, bm25_chunks, chunks, TRUE)
        IN  /\ vectordb' = after.vectordb
            /\ bm25_chunks' = after.bm25_chunks
            /\ bm25_exists' = after.bm25_exists
    /\ ingests' = ingests + 1
    /\ UNCHANGED <<pc, request, locals, gen_calls, logged, result, call>>

\* a run that an error of lines 332-344 (building or writing the pickle) ends
IngestInterrupted ==
    /\ pc = "idle"
    /\ ingests < MaxIngests
    /\ \E chunks \in Corpora :
        LET after == ingest_documents(vectordb, bm25_exists, bm25_chunks, chunks, FALSE)
        IN  /\ vectordb' = after.vectordb
            /\ bm25_chunks' = after.bm25_chunks
            /\ bm25_exists' = after.bm25_exists
    /\ ingests' = ingests + 1
    /\ UNCHANGED <<pc, request, locals, gen_calls, logged, result, call>>

(***************************************************************************)
(* app/query.py: query_documents                                          *)
(***************************************************************************)
Receive ==
    /\ pc = "idle"
    /\ \E q \in Questions, pt \in PolicyTypes, pn \in PolicyNumbers :
        request' = [question |-> q, policy_type |-> pt, policy_number |-> pn]
    /\ pc' = "retrieve"
    /\ UNCHANGED <<index, locals, gen_calls, logged, result, call>>

\* lines 164-169
Retrieve ==
    /\ pc = "retrieve"
    /\ \/ \E bm25_scores \in [1..Len(bm25_chunks) -> 0..MaxBm25Score],
             store_answer \in SemanticAnswers(vectordb,
                                 SemanticK(DEFAULT_K_RESULTS, bm25_exists),
                                 request.policy_type, request.policy_number, MaxSemantic) :
            /\ ~retrieve_raises(bm25_exists, bm25_chunks, FALSE)
            /\ docs' = retrieve_with_metadata_filter(
                           request.question, DEFAULT_K_RESULTS, request.policy_type,
                           request.policy_number, "None", bm25_exists, bm25_chunks,
                           bm25_scores, store_answer)
            /\ pc' = "gate"
            /\ error' = error
       \/ \E e \in CollaboratorErrors \cup
                    (IF retrieve_raises(bm25_exists, bm25_chunks, FALSE)
                     THEN {EmptyMaxError} ELSE {}) :
            /\ error' = e
            /\ pc' = "failed"
            /\ docs' = docs
    /\ UNCHANGED <<index, request, retrieval_quality, gate, context, sources, response,
                   answer, citations, faith_call, faith, hallucinations, confidence,
                   gen_calls, logged, result, call>>

RefusalLog(quality, n) ==
    [success |-> TRUE, confidence_score |-> RZero, confidence_level |-> "low",
     retrieval_score |-> quality[2], num_docs |-> n]

Refusal(question, reason) ==
    [kind |-> "response",
     answer |-> generate_insufficient_context_response(question, reason),
     citations |-> <<>>, sources |-> {}, confidence |-> "low"]

\* the gate computed and not obeyed
Gate_IgnoresDecision ==
    /\ pc = "gate"
    /\ retrieval_quality' = check_retrieval_quality(docs)
    /\ gate' = should_answer_question(docs, check_retrieval_quality(docs))
    /\ context' = format_docs_with_citations(docs)
    /\ sources' = extract_sources_from_docs(docs)
    /\ pc' = "generate"
    /\ UNCHANGED <<index, request, docs, response, answer, citations, faith_call,
                   faith, hallucinations, confidence, error, gen_calls, logged,
                   result, call>>

\* lines 172-197
Gate ==
    /\ pc = "gate"
    /\ LET quality == check_retrieval_quality(docs)
           decision == should_answer_question(docs, quality)
       IN  /\ retrieval_quality' = quality
           /\ gate' = decision
           /\ IF ~decision[1]
              THEN /\ logged' = Append(logged, RefusalLog(quality, Len(docs)))
                   /\ result' = Refusal(request.question, decision[2])
                   /\ pc' = "done"
                   /\ UNCHANGED <<context, sources>>
              ELSE /\ context' = format_docs_with_citations(docs)
                   /\ sources' = extract_sources_from_docs(docs)
                   /\ pc' = "generate"
                   /\ UNCHANGED <<logged, result>>
    /\ UNCHANGED <<index, request, docs, response, answer, citations, faith_call,
                   faith, hallucinations, confidence, error, gen_calls, call>>

\* lines 200-211
Generate ==
    /\ pc = "generate"
    /\ gen_calls' = gen_calls + 1
    /\ \/ \E text \in Responses :
            /\ response' = text
            /\ answer' = ParsedAnswer(text)
            /\ citations' = ParsedCitations(docs)
            /\ pc' = "validate"
            /\ error' = error
       \/ \E e \in CollaboratorErrors :
            /\ error' = e
            /\ pc' = "failed"
            /\ UNCHANGED <<response, answer, citations>>
    /\ UNCHANGED <<index, request, docs, retrieval_quality, gate, context, sources,
                   faith_call, faith, hallucinations, confidence, logged, result, call>>

\* a failure of the fact-check passed on to the handler's except branch
Validate_Propagates ==
    /\ pc = "validate"
    /\ \E c \in FaithCalls :
        /\ faith_call' = c
        /\ IF c.raised
           THEN /\ error' = c.error
                /\ pc' = "failed"
                /\ faith' = faith
           ELSE /\ faith' = validate_response_faithfulness(c)
                /\ pc' = "check"
                /\ error' = error
    /\ gen_calls' = gen_calls + 1
    /\ UNCHANGED <<index, request, docs, retrieval_quality, gate, context, sources,
                   response, answer, citations, hallucinations, confidence, logged,
                   result, call>>

\* lines 214-216
Validate ==
    /\ pc = "validate"
    /\ \E c \in FaithCalls :
        /\ faith_call' = c
        /\ faith' = validate_response_faithfulness(c)
    /\ gen_calls' = IF ENABLE_FAITHFULNESS_CHECK THEN gen_calls + 1 ELSE gen_calls
    /\ pc' = "check"
    /\ UNCHANGED <<index, request, docs, retrieval_quality, gate, context, sources,
                   response, answer, citations, hallucinations, confidence, error,
                   logged, result, call>>

\* line 219
CheckNumbers ==
    /\ pc = "check"
    /\ hallucinations' = check_for_hallucinated_numbers(answer, context)
    /\ pc' = "score"
    /\ UNCHANGED <<index, request, docs, retrieval_quality, gate, context, sources,
                   response, answer, citations, faith_call, faith, confidence, error,
                   gen_calls, logged, result, call>>

\* a scorer that rates an answer judged not faithful "low"
Score_VerdictCaps ==
    /\ pc = "score"
    /\ confidence' =
           LET scored == calculate_confidence_score(retrieval_quality[2], faith[2],
                                                    Len(citations) > 0)
           IN  IF faith[1] THEN scored ELSE <<scored[1], "low">>
    /\ pc' = "override"
    /\ UNCHANGED <<index, request, docs, retrieval_quality, gate, context, sources,
                   response, answer, citations, faith_call, faith, hallucinations,
                   error, gen_calls, logged, result, call>>

\* lines 222-227
Score ==
    /\ pc = "score"
    /\ confidence' = calculate_confidence_score(retrieval_quality[2], faith[2],
                                                Len(citations) > 0)
    /\ pc' = "override"
    /\ UNCHANGED <<index, request, docs, retrieval_quality, gate, context, sources,
                   response, answer, citations, faith_call, faith, hallucinations,
                   error, gen_calls, logged, result, call>>

Warning(flags) ==
    <<"\n\n", "Warning: Possible inconsistencies detected: ">>
    \o Join(Prefix(flags, 2), <<", ">>)

\* the level forced to "low" and the score left as it was
OverrideConfidence_LevelOnly(conf, flags) ==
    IF flags # <<>> THEN <<conf[1], "low">> ELSE conf

\* the override of lines 230-232, on (confidence_score, confidence_level)
OverrideConfidence(conf, flags) ==
    IF flags # <<>> THEN <<RMul(conf[1], <<1, 2>>), "low">> ELSE conf

\* lines 230-233
Override ==
    /\ pc = "override"
    /\ confidence' = OverrideConfidence(confidence, hallucinations)
    /\ answer' = IF hallucinations # <<>> THEN answer \o Warning(hallucinations)
                 ELSE answer
    /\ pc' = "finish"
    /\ UNCHANGED <<index, request, docs, retrieval_quality, gate, context, sources,
                   response, citations, faith_call, faith, hallucinations, error,
                   gen_calls, logged, result, call>>

AnswerLog ==
    [success |-> TRUE, confidence_score |-> confidence[1],
     confidence_level |-> confidence[2], retrieval_score |-> retrieval_quality[2],
     num_docs |-> Len(docs), faithfulness_score |-> faith[2]]

\* lines 236-260
Finish ==
    /\ pc = "finish"
    /\ answer' = add_confidence_disclaimer(answer, confidence[2], confidence[1])
    /\ logged' = Append(logged, AnswerLog)
    /\ result' = [kind |-> "response", answer |-> answer', citations |-> citations,
                  sources |-> sources, confidence |-> confidence[2]]
    /\ pc' = "done"
    /\ UNCHANGED <<index, request, docs, retrieval_quality, gate, context, sources,
                   response, citations, faith_call, faith, hallucinations, confidence,
                   error, gen_calls, call>>

\* a handler that logs the failure and still returns a response body
Fail_ReturnsEmptyAnswer ==
    /\ pc = "failed"
    /\ logged' = Append(logged, [success |-> FALSE, error_message |-> error])
    /\ result' = [kind |-> "response", answer |-> <<>>, citations |-> <<>>,
                  sources |-> {}, confidence |-> "low"]
    /\ pc' = "done"
    /\ UNCHANGED <<index, request, locals, gen_calls, call>>

\* lines 262-271
Fail ==
    /\ pc = "failed"
    /\ logged' = Append(logged, [success |-> FALSE, error_message |-> error])
    /\ result' = [kind |-> "http500", detail |-> <<"Query failed: ">> \o error]
    /\ pc' = "done"
    /\ UNCHANGED <<index, request, locals, gen_calls, call>>

\* the request is over; the next one starts with fresh locals
Return ==
    /\ pc = "done"
    /\ pc' = "idle"
    /\ request' = NoRequest
    /\ docs' = <<>>
    /\ retrieval_quality' = <<FALSE, RZero, <<>>>>
    /\ gate' = <<FALSE, <<>>>>
    /\ context' = <<>>
    /\ sources' = {}
    /\ response' = <<>>
    /\ answer' = <<>>
    /\ citations' = <<>>
    /\ faith_call' = NoFaithCall
    /\ faith' = <<FALSE, RZero, <<>>>>
    /\ hallucinations' = <<>>
    /\ confidence' = <<RZero, "">>
    /\ error' = <<>>
    /\ gen_calls' = 0
    /\ logged' = <<>>
    /\ result' = NoResult
    /\ UNCHANGED <<index, call>>

Next ==
    \/ Ingest
    \/ IngestInterrupted
    \/ Receive
    \/ Retrieve
    \/ Gate
    \/ Generate
    \/ Validate
    \/ CheckNumbers
    \/ Score
    \/ Override
    \/ Finish
    \/ Fail
    \/ Return

Spec == Init /\ [][Next]_vars

(***************************************************************************)
(* Direct calls of the validation functions (app/validation.py), on       *)
(* inputs drawn from bounded sets, as tests/test_validation.py calls them *)
(***************************************************************************)
MaxDocs == 3
GridDen == 10
MaxPieces == 3

\* relevance scores of a test document; <<>>: metadata without "relevance_score"
NoScore == <<>>
RelevanceGrid == {NoScore} \cup {Rat(n, 4) : n \in 0..6}

TestDoc(score) ==
    IF score = NoScore THEN AsDoc(ChunkG1) ELSE WithScore(AsDoc(ChunkG1), score)

DocLists(maxLen) ==
    {[i \in 1..Len(scores) |-> TestDoc(scores[i])] :
        scores \in UNION {[1..n -> RelevanceGrid] : n \in 0..maxLen}}

\* verdicts handed to should_answer_question: those check_retrieval_quality
\* gives, and two that do not fit the documents they come with
Verdicts ==
    {check_retrieval_quality(d) : d \in DocLists(2)}
    \cup {<<TRUE, RZero, MsgGood>>, <<FALSE, <<9, 10>>, MsgLowRelevance(<<9, 10>>)>>}

ScoreGrid == {Rat(n, GridDen) : n \in (-(GridDen \div 2))..(GridDen + GridDen \div 2)}

Pieces ==
    { <<"$", "2">>, <<",", "5", "0", "0">>, <<",">>, <<".", "5", "0">>,
      Chars("polnum"), <<"9">>, <<" ", "x">>, <<"Z", "Z">> }

RECURSIVE Texts(_)
\* the texts made of at most n pieces
Texts(n) ==
    IF n = 0 THEN {<<>>}
    ELSE LET shorter == Texts(n - 1)
         IN  shorter \cup {t \o p : t \in shorter, p \in Pieces}

Contexts ==
    { <<>>,
      <<"deductible", " ">> \o Chars("2500") \o <<" ", "for", " ", "all">>,
      Chars("2500") \o <<".", "5", "0", " ">> \o Chars("polnum") }

pipeline == <<bm25_exists, bm25_chunks, vectordb, ingests, pc, request, docs,
              retrieval_quality, gate, context, sources, response, answer, citations,
              faith_call, faith, hallucinations, confidence, error, gen_calls, logged,
              result>>

CallCheckRetrievalQuality ==
    /\ call = NoCall
    /\ \E d \in DocLists(MaxDocs) :
        call' = [fn |-> "check_retrieval_quality", docs |-> d,
                 out |-> check_retrieval_quality(d)]
    /\ UNCHANGED pipeline

CallShouldAnswer ==
    /\ call = NoCall
    /\ \E d \in DocLists(1), v \in Verdicts :
        call' = [fn |-> "should_answer_question", docs |-> d, verdict |-> v,
                 out |-> should_answer_question(d, v)]
    /\ UNCHANGED pipeline

CallConfidence ==
    /\ call = NoCall
    /\ \E r \in ScoreGrid, f \in ScoreGrid, c \in BOOLEAN :
        call' = [fn |-> "calculate_confidence_score", retrieval_score |-> r,
                 faithfulness_score |-> f, has_specific_citations |-> c,
                 out |-> calculate_confidence_score(r, f, c)]
    /\ UNCHANGED pipeline

CallHallucinated ==
    /\ call = NoCall
    /\ \E a \in Texts(MaxPieces), c \in Contexts :
        call' = [fn |-> "check_for_hallucinated_numbers", answer |-> a, context |-> c,
                 out |-> check_for_hallucinated_numbers(a, c)]
    /\ UNCHANGED pipeline

\* texts of the three fields the fact-checking prompt asks for, each field
\* present or absent, the confidence a numeral or a word
FaithfulFields ==
    {<<>>} \cup {<<"FAITHFUL:", " ", w, "\n">> : w \in {"YES", "NO", "yes"}}
ConfidenceFields ==
    {<<>>} \cup {<<"CONFIDENCE:", " ", n, "\n">> : n \in Numerals \cup {"high"}}
ExplanationFields == {<<>>, <<"EXPLANATION:", " ", "supported">>}
FieldTexts ==
    {f \o c \o e : f \in FaithfulFields, c \in ConfidenceFields, e \in ExplanationFields}
FieldCalls ==
    FaithCalls \cup {[raised |-> FALSE, error |-> <<>>, text |-> t] : t \in FieldTexts}

CallFaithfulness ==
    /\ call = NoCall
    /\ \E c \in FieldCalls :
        call' = [fn |-> "validate_response_faithfulness", collaborator |-> c,
                 out |-> validate_response_faithfulness(c)]
    /\ UNCHANGED pipeline

\* the pickled index of a retrieval call, written by the last ingestion run:
\* two chunks of one guide that share their identity, and a personal policy
HybridChunks == <<ChunkG1, ChunkP1, ChunkG1b>>
\* the collection, which every ingestion run adds to: the chunks of an earlier
\* run, when a second personal policy was on disk, and those of the last run
HybridStore == <<ChunkG1, ChunkP1, ChunkP2, ChunkG1b>> \o HybridChunks
HybridKs == {1, 2}

\* What a retrieval call can find on disk: both indexes as the last run left
\* them; both built over no chunk; the pickle missing; the collection
\* missing; both missing.
HybridIndexes ==
    { [bm25_file_exists |-> TRUE, all_chunks |-> HybridChunks, store |-> HybridStore, store_built |-> TRUE],
      [bm25_file_exists |-> TRUE, all_chunks |-> <<>>, store |-> <<>>, store_built |-> TRUE],
      [bm25_file_exists |-> FALSE, all_chunks |-> <<>>, store |-> HybridStore, store_built |-> TRUE],
      [bm25_file_exists |-> TRUE, all_chunks |-> HybridChunks, store |-> <<>>, store_built |-> FALSE],
      [bm25_file_exists |-> FALSE, all_chunks |-> <<>>, store |-> <<>>, store_built |-> FALSE] }

\* A search of a collection that was never built answers with no result or
\* raises: which of the two is the store's own.
CallRetrieve ==
    /\ call = NoCall
    /\ \E on_disk \in HybridIndexes, query \in Questions, k \in HybridKs,
          policy_type \in PolicyTypes, policy_number \in PolicyNumbers,
          prefer_personal \in {"None", "True", "False"} :
        \E bm25_scores \in [1..Len(on_disk.all_chunks) -> 0..MaxBm25Score],
           store_raised \in (IF on_disk.store_built THEN {FALSE} ELSE BOOLEAN),
           store_answer \in SemanticAnswers(on_disk.store,
                               SemanticK(k, on_disk.bm25_file_exists), policy_type,
                               policy_number, MaxSemantic) :
            LET raised == retrieve_raises(on_disk.bm25_file_exists, on_disk.all_chunks,
                                          store_raised)
            IN  /\ (store_raised => store_answer = <<>>)
                /\ call' = [fn |-> "retrieve_with_metadata_filter", query |-> query,
                     k |-> k, policy_type |-> policy_type,
                     policy_number |-> policy_number, prefer_arg |-> prefer_personal,
                     prefer_personal |-> effective_prefer(query, prefer_personal),
                     bm25_file_exists |-> on_disk.bm25_file_exists,
                     store_built |-> on_disk.store_built,
                     all_chunks |-> on_disk.all_chunks, bm25_scores |-> bm25_scores,
                     semantic_k |-> SemanticK(k, on_disk.bm25_file_exists),
                     semantic_docs |-> semantic_retrieve(store_answer),
                     store_raised |-> store_raised, raised |-> raised,
                     out |-> IF raised THEN <<>>
                             ELSE retrieve_with_metadata_filter(
                                      query, k, policy_type, policy_number,
                                      prefer_personal, on_disk.bm25_file_exists,
                                      on_disk.all_chunks, bm25_scores, store_answer)]
    /\ UNCHANGED pipeline

MaxWords == 3

\* the words of the queries handed to detect_personal_query_intent
QueryWords ==
    { <<"m", "y">>, <<"M", "y">>, <<"t", "o", "m", "m", "y">>, <<"a", "m">>, <<"i">>,
      <<"c", "a", "r">> }

RECURSIVE Phrases(_)
\* the queries of at most n words, one space between two words
Phrases(n) ==
    IF n = 1 THEN QueryWords
    ELSE LET shorter == Phrases(n - 1)
         IN  shorter \cup {q \o <<" ">> \o w : q \in shorter, w \in QueryWords}

CallDetect ==
    /\ call = NoCall
    /\ \E q \in Phrases(MaxWords) :
        call' = [fn |-> "detect_personal_query_intent", query |-> q,
                 out |-> detect_personal_query_intent(q)]
    /\ UNCHANGED pipeline

\* texts the model answers a structured prompt with
StructuredResponses ==
    { <<"<fence>json", "\n", "{full}", "\n", "<fence>">>,
      <<"Here", " ", "it", " ", "is", "\n", "<fence>", "{full}", "<fence>", "\n", "Done">>,
      <<"{full}">>, <<" ", "{}", "\n">>,
      <<"The", " ", "policy", " ", "covers", " ", "it">>,
      <<"<fence>json", "{", "<fence>">>,
      <<"Answer", " ", "{full}">>,
      <<"[1]">>, <<"<fence>json", "[1]", "<fence>">>,
      <<"{lists as text}">>, <<"{nulls}">>, <<"{items of numbers}">> }

CallCheckCoverage ==
    /\ call = NoCall
    /\ \E text \in StructuredResponses :
        call' = [fn |-> "check_coverage", response |-> text,
                 parsed |-> json_loads(Strip(extract_json(text))),
                 out |-> check_coverage(text)]
    /\ UNCHANGED pipeline

CallComparePolicies ==
    /\ call = NoCall
    /\ \E text \in StructuredResponses, comparison_query \in Questions :
        call' = [fn |-> "compare_policies", response |-> text,
                 comparison_query |-> comparison_query,
                 parsed |-> json_loads(Strip(extract_json(text))),
                 out |-> compare_policies(text, comparison_query)]
    /\ UNCHANGED pipeline

\* one more successful run, on the indexes as construction or one earlier
\* successful run left them
CallIngest ==
    /\ call = NoCall
    /\ \E earlier \in {<<>>} \cup Corpora, chunks \in Corpora :
        LET before == IF earlier = <<>>
                      THEN [vectordb |-> <<>>, bm25_exists |-> FALSE, bm25_chunks |-> <<>>]
                      ELSE ingest_documents(<<>>, FALSE, <<>>, earlier, TRUE)
        IN  call' = [fn |-> "ingest_documents", before |-> before, chunks |-> chunks,
                     after |-> ingest_documents(before.vectordb, before.bm25_exists,
                                                before.bm25_chunks, chunks, TRUE)]
    /\ UNCHANGED pipeline

CallDisclaimer ==
    /\ call = NoCall
    /\ \E text \in Responses \cup {<<>>}, level \in {"high", "medium", "low", "", "LOW"}, score \in ScoreGrid :
        call' = [fn |-> "add_confidence_disclaimer", answer |-> ParsedAnswer(text),
                 confidence_level |-> level, confidence_score |-> score,
                 out |-> add_confidence_disclaimer(ParsedAnswer(text), level, score)]
    /\ UNCHANGED pipeline

\* retrieved lists of at most MaxDocs documents, by their source file: two
\* files of which one name contains the other, and a third
EvalDocLists ==
    LET files == {<<"auto", ".txt">>, <<"my_", "auto", ".txt">>, <<"home", ".txt">>}
    IN  UNION {[1..n -> {[source |-> f] : f \in files}] : n \in 0..MaxDocs}

CallMrr ==
    /\ call = NoCall
    /\ \E retrieved_docs \in EvalDocLists,
          relevant_source \in {<<"auto", ".txt">>, <<"home", ".txt">>, <<"life", ".txt">>} :
        call' = [fn |-> "calculate_mrr", retrieved_docs |-> retrieved_docs,
                 relevant_source |-> relevant_source,
                 out |-> calculate_mrr(retrieved_docs, relevant_source)]
    /\ UNCHANGED pipeline

CallNdcg ==
    /\ call = NoCall
    /\ \E retrieved_docs \in EvalDocLists,
          relevant_sources \in UNION {[1..n -> {<<"auto", ".txt">>, <<"home", ".txt">>}] :
                                         n \in 0..2} :
        call' = [fn |-> "calculate_ndcg", retrieved_docs |-> retrieved_docs,
                 relevant_sources |-> relevant_sources,
                 out |-> calculate_ndcg(retrieved_docs, relevant_sources)]
    /\ UNCHANGED pipeline

CallReturn ==
    /\ call # NoCall
    /\ call' = NoCall
    /\ UNCHANGED pipeline

NextFn ==
    \/ CallCheckRetrievalQuality
    \/ CallShouldAnswer
    \/ CallConfidence
    \/ CallHallucinated
    \/ CallFaithfulness
    \/ CallRetrieve
    \/ CallDetect
    \/ CallCheckCoverage
    \/ CallComparePolicies
    \/ CallIngest
    \/ CallDisclaimer
    \/ CallMrr
    \/ CallNdcg
    \/ CallReturn

SpecFn == Init /\ [][NextFn]_vars

(***************************************************************************)
(* Properties                                                             *)
(***************************************************************************)
IsPrefixOf(p, t) == Len(p) <= Len(t) /\ SubSeq(t, 1, Len(p)) = p
EndsWith(t, e) == Len(e) <= Len(t) /\ SubSeq(t, Len(t) - Len(e) + 1, Len(t)) = e
InUnitInterval(x) == RLe(RZero, x) /\ RLe(x, ROne)

\* query_documents has passed line 173: the gate decision is in `gate`
GateDecided ==
    \/ pc \in {"generate", "validate", "check", "score", "override", "finish"}
    \/ pc = "failed" /\ gen_calls > 0
    \/ pc = "done" /\ (result.kind = "response" \/ gen_calls > 0)

\* the request returned a QueryResponse built from a generated answer
Answered == pc = "done" /\ result.kind = "response" /\ gate[1]

\* C1: a request whose gate decision is should_answer = false makes no call
\* to the generation collaborator (neither answer synthesis nor the
\* faithfulness check) and returns the templated refusal that contains the
\* gate's reason, with confidence "low" and no citations and no sources.
C1_GateVeto ==
    GateDecided =>
        /\ gate = should_answer_question(docs, check_retrieval_quality(docs))
        /\ ~gate[1] =>
            /\ pc = "done"
            /\ gen_calls = 0
            /\ result.kind = "response"
            /\ result.answer =
                   generate_insufficient_context_response(request.question, gate[2])
            /\ gate[2] # <<>> /\ Contains(result.answer, gate[2])
            /\ result.confidence = "low"
            /\ result.citations = <<>>
            /\ result.sources = {}

\* a refusal for documents that were retrieved but are not relevant enough
C1_Witness ==
    /\ pc = "done" /\ result.kind = "response" /\ ~gate[1]
    /\ docs # <<>> /\ gen_calls = 0

\* C2: should_answer_question answers true exactly for a non-empty chunk list
\* with a sufficient verdict, then with the empty reason; an empty list gives
\* false with the "No relevant policy documents" reason whatever the verdict
\* says; a non-empty list with an insufficient verdict gives false with a
\* reason that includes the verdict's message, which carries the computed
\* average when the verdict is the one check_retrieval_quality gave.
C2_Decide ==
    call.fn = "should_answer_question" =>
        /\ call.out[1] <=> (call.docs # <<>> /\ call.verdict[1])
        /\ call.out[1] => call.out[2] = <<>>
        /\ call.docs = <<>> =>
               call.out[2] = <<"No relevant policy documents found. Please ensure documents have been ingested.">>
        /\ (call.docs # <<>> /\ ~call.verdict[1]) =>
               /\ Contains(call.out[2], call.verdict[3])
               /\ call.verdict = check_retrieval_quality(call.docs) =>
                      Contains(call.out[2], <<Fmt2(call.verdict[2])>>)

C2_Witness ==
    /\ call.fn = "should_answer_question"
    /\ call.docs # <<>> /\ ~call.verdict[1]
    /\ call.verdict = check_retrieval_quality(call.docs)
    /\ ~call.out[1]

\* the relevance scores of a document list, a missing score counted as 0
ScoresOrZero(d) ==
    [i \in 1..Len(d) |-> IF d[i].has_score THEN d[i].relevance_score ELSE RZero]

\* C3: check_retrieval_quality gives (false, 0) for the empty list; for a
\* non-empty list the average is the mean of the relevance scores (a missing
\* score counts as 0) and the verdict is sufficient exactly when that mean is
\* at least 0.5, so a mean of exactly 0.5 is sufficient.
C3_Assess ==
    call.fn = "check_retrieval_quality" =>
        /\ call.docs = <<>> => (~call.out[1] /\ call.out[2] = RZero)
        /\ call.docs # <<>> =>
            /\ RMul(call.out[2], <<Len(call.docs), 1>>) = RSum(ScoresOrZero(call.docs))
            /\ call.out[1] <=> (2 * call.out[2][1] >= call.out[2][2])

\* a mean of exactly 0.5, one of the documents carrying no score
C3_Witness ==
    /\ call.fn = "check_retrieval_quality"
    /\ Len(call.docs) > 1
    /\ \E i \in 1..Len(call.docs) : ~call.docs[i].has_score
    /\ call.out[2] = <<1, 2>>
    /\ call.out[1]

\* what the scorer returns for the request at hand
Scored == calculate_confidence_score(retrieval_quality[2], faith[2], Len(citations) > 0)
Flagged == hallucinations # <<>>

\* the disclaimer add_confidence_disclaimer appends for a level and a score
DisclaimerFor(level, score) ==
    IF level = "low" THEN <<"\n\n", "**Low Confidence (", Fmt2(score),
                            ")**: This answer has low confidence.">>
    ELSE IF level = "medium" THEN <<"\n\n", "**Medium Confidence (", Fmt2(score),
                            ")**: This answer is based on available information.">>
    ELSE <<>>

\* C4: when the hallucinated-number check flags anything, the confidence
\* that is logged and that picks the disclaimer is exactly half the scorer's
\* score, with level "low" whatever level the scorer gave; the override is
\* applied after the scorer ran and before add_confidence_disclaimer; with
\* no flag the scorer's score and level are passed on unchanged.
C4_Override ==
    /\ pc = "override" => confidence = Scored
    /\ (pc = "finish" \/ Answered) =>
        /\ Flagged => (RAdd(confidence[1], confidence[1]) = Scored[1]
                       /\ confidence[2] = "low")
        /\ ~Flagged => confidence = Scored
    /\ pc = "finish" => ~EndsWith(answer, <<")**: This answer has low confidence.">>)
    /\ Answered =>
        /\ Len(logged) = 1
        /\ logged[1].confidence_score = confidence[1]
        /\ logged[1].confidence_level = confidence[2]
        /\ result.confidence = confidence[2]
        /\ EndsWith(result.answer, DisclaimerFor(confidence[2], confidence[1]))

\* flagged numbers in an answer the scorer rated "high"
C4_Witness ==
    Answered /\ Flagged /\ Scored[2] = "high" /\ confidence[2] = "low"

\* C5: both post-generation checks are advisory: once the gate has passed
\* and the generation collaborator has returned text, the request returns a
\* response that carries the generated answer text, for every outcome of the
\* faithfulness check (faithful or not, any score, failure of the check) and
\* of the hallucinated-number check; the checks only append to the answer.
C5_Advisory ==
    /\ pc \in {"validate", "check", "score", "override", "finish"} =>
           (response # <<>> /\ IsPrefixOf(ParsedAnswer(response), answer))
    /\ (pc \in {"failed", "done"} /\ response # <<>>) =>
        /\ pc = "done"
        /\ result.kind = "response"
        /\ IsPrefixOf(ParsedAnswer(response), result.answer)

\* the answer is returned although the fact-check judged it not faithful
\* and the number check flagged it
C5_Witness ==
    /\ Answered /\ Flagged /\ ~faith[1] /\ ~faith_call.raised
    /\ IsPrefixOf(ParsedAnswer(response), result.answer)

LevelRank(level) == IF level = "high" THEN 2 ELSE IF level = "medium" THEN 1 ELSE 0

\* C6: calculate_confidence_score(r, f, c) returns the score
\* 0.4*r + 0.4*f + 0.2*(1.0 if c else 0.5) and the level "high" from 0.8,
\* "medium" from 0.6 and below 0.8, "low" otherwise; the level is monotone in
\* r and in f.
C6_Score ==
    call.fn = "calculate_confidence_score" =>
        LET r == call.retrieval_score
            f == call.faithfulness_score
            c == call.has_specific_citations
            num == 4 * r[1] * f[2] + 4 * f[1] * r[2] + (IF c THEN 2 ELSE 1) * r[2] * f[2]
            den == 10 * r[2] * f[2]
            score == call.out[1]
            level == call.out[2]
        IN  /\ score[1] * den = num * score[2]
            /\ level = "high" <=> 5 * score[1] >= 4 * score[2]
            /\ level = "medium" <=> (5 * score[1] >= 3 * score[2] /\ 5 * score[1] < 4 * score[2])
            /\ level = "low" <=> 5 * score[1] < 3 * score[2]
            /\ \A x \in ScoreGrid :
                /\ RLe(r, x) =>
                       LevelRank(calculate_confidence_score(x, f, c)[2]) >= LevelRank(level)
                /\ RLe(f, x) =>
                       LevelRank(calculate_confidence_score(r, x, c)[2]) >= LevelRank(level)

\* a score of exactly 0.8, rated "high"
C6_Witness ==
    /\ call.fn = "calculate_confidence_score"
    /\ call.out = <<<<4, 5>>, "high">>

\* C7: the confidence score of an answered /query request lies in [0,1],
\* the retrieval score being the mean of the fused relevance scores of the
\* returned chunks and the faithfulness score the one the fact-check returned
\* (taken here within [0,1]).
C7_ConfidenceInUnitInterval ==
    ((pc \in {"override", "finish"} \/ Answered) /\ InUnitInterval(faith[2])) =>
        InUnitInterval(confidence[1])

\* C8: check_for_hallucinated_numbers returns exactly one flag for each
\* extracted amount and each extracted policy number that is not a substring
\* of the context, the amount flags first and then the policy-number flags,
\* each group in order of occurrence, and nothing else; the list is empty
\* exactly when every extracted token is a substring of the context.
C8_Flags ==
    call.fn = "check_for_hallucinated_numbers" =>
        LET amounts == FindAmounts(call.answer)
            numbers == FindPolicyNums(call.answer)
            Missing(t) == ~Contains(call.context, t)
            missingA == SelectSeq(amounts, Missing)
            missingN == SelectSeq(numbers, Missing)
        IN  /\ Len(call.out) = Len(missingA) + Len(missingN)
            /\ \A i \in 1..Len(missingA) :
                   call.out[i] = <<"Amount ">> \o missingA[i]
                                     \o <<" not found in policy documents">>
            /\ \A i \in 1..Len(missingN) :
                   call.out[Len(missingA) + i] =
                       <<"Policy number ">> \o missingN[i] \o <<" not found in documents">>
            /\ (call.out = <<>>) <=>
                   (\A t \in Range(amounts) \cup Range(numbers) : Contains(call.context, t))

\* a policy number ahead of an amount in the answer, neither in the context:
\* both are flagged, the amount first
C8_Witness ==
    /\ call.fn = "check_for_hallucinated_numbers"
    /\ call.context # <<>>
    /\ Len(FindAmounts(call.answer)) = 1
    /\ Len(FindPolicyNums(call.answer)) = 1
    /\ call.answer[1] # "$"
    /\ Len(call.out) = 2
    /\ call.out[1][1] = "Amount "
    /\ call.out[2][1] = "Policy number "

RECURSIVE GroupsEnd(_, _)
\* the end of the ",ddd" groups that follow position j
GroupsEnd(s, j) ==
    IF At(s, j + 1) = "," /\ (\A m \in (j + 2)..(j + 4) : At(s, m) \in Digits)
       /\ At(s, j + 5) \notin Digits
    THEN GroupsEnd(s, j + 4)
    ELSE j

\* a dollar amount stated at position i: "$", digits, comma groups of three
\* digits, optional two-digit cents; the index of its last symbol, 0: none
StatedAmountEnd(s, i) ==
    IF At(s, i) # "$" \/ At(s, i + 1) \notin Digits THEN 0
    ELSE LET g == GroupsEnd(s, RunEnd(s, i + 1, Digits))
         IN  IF At(s, g + 1) = "." /\ At(s, g + 2) \in Digits /\ At(s, g + 3) \in Digits
             THEN g + 3
             ELSE g

StatedAmounts(s) ==
    {SubSeq(s, i, StatedAmountEnd(s, i)) : i \in {j \in 1..Len(s) : StatedAmountEnd(s, j) # 0}}

\* C9: correct amounts are not flagged: if each dollar amount stated in the
\* answer occurs verbatim in the context, check_for_hallucinated_numbers
\* returns no amount flag, whatever surrounds the amount in the answer.
C9_CorrectAmountsNotFlagged ==
    (call.fn = "check_for_hallucinated_numbers"
     /\ \A a \in StatedAmounts(call.answer) : Contains(call.context, a)) =>
        \A i \in 1..Len(call.out) : call.out[i][1] # "Amount "

\* C10: validate_response_faithfulness fails open: when the collaborator
\* raises (constructing the client or invoking the chain) it returns
\* faithful = true, confidence 0.5 and an explanation that contains the error
\* text, and the request goes on to return a response.
C10_FailOpen ==
    faith_call.raised =>
        /\ pc \in {"check", "score", "override", "finish", "done"}
        /\ faith[1] = TRUE
        /\ faith[2] = <<1, 2>>
        /\ faith_call.error # <<>> /\ Contains(faith[3], faith_call.error)
        /\ pc = "done" => result.kind = "response"

C10_Witness ==
    /\ Answered /\ faith_call.raised
    /\ logged[1].faithfulness_score = <<1, 2>>

\* the CONFIDENCE field of a fact-check text is missing or is not a number
ConfidenceUnparsable(text) ==
    \/ IndexOf(text, "CONFIDENCE:") = 0
    \/ LET field == Strip(BeforeFirst(SplitSecond(text, "CONFIDENCE:"), "\n"))
       IN  ~(Len(field) = 1 /\ field[1] \in Numerals)

\* C11: for every fact-check text whose CONFIDENCE field is missing or is not
\* a number, validate_response_faithfulness returns confidence 0.7 with a
\* faithful verdict and 0.3 with a not-faithful verdict, also when the
\* FAITHFUL or the EXPLANATION field is missing.
C11_ParseDefaults ==
    (/\ call.fn = "validate_response_faithfulness"
     /\ ~call.collaborator.raised
     /\ ConfidenceUnparsable(call.collaborator.text)) =>
        call.out[2] = IF call.out[1] THEN <<7, 10>> ELSE <<3, 10>>

\* C12: the confidence validate_response_faithfulness returns lies in [0,1]
\* for every text the collaborator can return, a CONFIDENCE field outside
\* that range or negative included.
C12_FaithConfidenceInUnitInterval ==
    call.fn = "validate_response_faithfulness" => InUnitInterval(call.out[2])

(***************************************************************************)
(* Hybrid retrieval: what a retrieval call was given, read from `call`    *)
(***************************************************************************)
Retrieved ==
    /\ call.fn = "retrieve_with_metadata_filter"
    /\ UsesHybrid(call.bm25_file_exists)
    /\ ~call.raised

\* a returned document without what retrieval wrote on it
Bare(doc) == [doc EXCEPT !.has_score = FALSE, !.relevance_score = RZero]

\* the metadata predicate of the call
Matches(chunk) ==
    /\ (call.policy_type = "" \/ LowerSym(chunk.policy_type) = LowerSym(call.policy_type))
    /\ (call.policy_number = <<>> \/ chunk.policy_number = call.policy_number)

\* chunk a is ahead of chunk b in lexical rank
LexBefore(a, b) ==
    \/ call.bm25_scores[a] > call.bm25_scores[b]
    \/ (call.bm25_scores[a] = call.bm25_scores[b] /\ a < b)

LexRank(i) == 1 + Cardinality({j \in 1..Len(call.all_chunks) : LexBefore(j, i)})

\* the chunks among the 2k best lexical ones that satisfy the predicate
LexicalCandidates ==
    {i \in 1..Len(call.all_chunks) :
        LexRank(i) <= 2 * call.k /\ Matches(call.all_chunks[i])}

\* the identities the fusion holds before it truncates
FusedIds ==
    {DocId(call.all_chunks[i]) : i \in LexicalCandidates}
        \cup {DocId(call.semantic_docs[i]) : i \in 1..Len(call.semantic_docs)}

\* C13: the list hybrid retrieval returns never has more than k elements.
C13_AtMostK ==
    Retrieved => Len(call.out) <= call.k

\* 2k lexical candidates and 2k semantic hits, no chunk in both, more
\* identities than k: the result has k elements
C13_Witness ==
    /\ Retrieved
    /\ Cardinality(LexicalCandidates) = 2 * call.k
    /\ Len(call.semantic_docs) = 2 * call.k
    /\ \A i \in LexicalCandidates, j \in 1..Len(call.semantic_docs) :
           AsDoc(call.all_chunks[i]) # call.semantic_docs[j]
    /\ Cardinality(FusedIds) > call.k
    /\ Len(call.out) = call.k

\* C14: the list hybrid retrieval returns never holds two chunks with the
\* same identity (source and first 50 characters of content).
C14_NoDuplicateIdentity ==
    Retrieved =>
        \A i, j \in 1..Len(call.out) : i # j => DocId(call.out[i]) # DocId(call.out[j])

\* the semantic path returned one chunk twice, the lexical path found it too,
\* and it is returned once, ahead of another chunk
C14_Witness ==
    /\ Retrieved
    /\ Len(call.out) = 2
    /\ \E a, b \in 1..Len(call.semantic_docs), i \in LexicalCandidates :
        /\ a # b
        /\ call.semantic_docs[a] = call.semantic_docs[b]
        /\ AsDoc(call.all_chunks[i]) = call.semantic_docs[a]
        /\ Bare(call.out[1]) = call.semantic_docs[a]

\* the maximum the lexical scores are divided by (1 when all are zero)
LexMax ==
    LET m == CHOOSE x \in Range(call.bm25_scores) : \A y \in Range(call.bm25_scores) : y <= x
    IN  IF m > 0 THEN m ELSE 1

\* the multiplier of a chunk: the personal boost for a personal chunk under a
\* personal query, 1 otherwise
Multiplier(doc) ==
    IF call.prefer_personal /\ ~doc.is_default_doc THEN PERSONAL_POLICY_BOOST ELSE ROne

\* the fused score lexical candidate i would have received on its own
OwnLexical(i) ==
    RMul(Multiplier(call.all_chunks[i]),
         RMul(BM25_WEIGHT, Rat(call.bm25_scores[i], LexMax)))

\* the fused score a semantic hit would have received on its own
OwnSemantic(doc) == RMul(Multiplier(doc), SEMANTIC_WEIGHT)

\* C15: de-duplication keeps the highest score per identity: the entry that
\* survives in the fused result carries a score at least as high as the
\* fused score each candidate of the same identity would have received on
\* its own.
C15_KeepsHighest ==
    Retrieved =>
        \A p \in 1..Len(call.out) :
            /\ \A i \in LexicalCandidates :
                   DocId(call.all_chunks[i]) = DocId(call.out[p]) =>
                       RLe(OwnLexical(i), call.out[p].relevance_score)
            /\ \A j \in 1..Len(call.semantic_docs) :
                   DocId(call.semantic_docs[j]) = DocId(call.out[p]) =>
                       RLe(OwnSemantic(call.semantic_docs[j]), call.out[p].relevance_score)

\* C16: with prefer_personal, a personal chunk and a general chunk of the
\* result whose scores before the boost are equal are ranked personal first.
C16_PersonalFirst ==
    (Retrieved /\ call.prefer_personal) =>
        \A p, g \in 1..Len(call.out) :
            (/\ ~call.out[p].is_default_doc
             /\ call.out[g].is_default_doc
             /\ call.out[p].relevance_score =
                    RMul(PERSONAL_POLICY_BOOST, call.out[g].relevance_score)) => p < g

\* the share n of a returned chunk: its raw lexical score over the maximum
\* if it is a lexical candidate, 0 otherwise
LexicalShare(doc) ==
    IF \E i \in LexicalCandidates : AsDoc(call.all_chunks[i]) = Bare(doc)
    THEN LET i == CHOOSE i \in LexicalCandidates : AsDoc(call.all_chunks[i]) = Bare(doc)
         IN  Rat(call.bm25_scores[i], LexMax)
    ELSE RZero

\* the share s of a returned chunk: 1 if it is in the semantic result, else 0
SemanticShare(doc) ==
    IF \E j \in 1..Len(call.semantic_docs) : call.semantic_docs[j] = Bare(doc)
    THEN ROne ELSE RZero

\* C17: the fused score of every returned chunk, stored as its relevance
\* score, is m * (lexical_weight * n + semantic_weight * s).
C17_FusedScore ==
    Retrieved =>
        \A p \in 1..Len(call.out) :
            /\ call.out[p].has_score
            /\ call.out[p].relevance_score =
                   RMul(Multiplier(call.out[p]),
                        RAdd(RMul(BM25_WEIGHT, LexicalShare(call.out[p])),
                             RMul(SEMANTIC_WEIGHT, SemanticShare(call.out[p]))))

\* the chunks of the index that satisfy the predicate, and their scores
MatchingIndices == {i \in 1..Len(call.all_chunks) : Matches(call.all_chunks[i])}
NthMatching(p) ==
    CHOOSE i \in MatchingIndices : Cardinality({j \in MatchingIndices : j < i}) = p - 1
MatchingChunks == [p \in 1..Cardinality(MatchingIndices) |-> call.all_chunks[NthMatching(p)]]
MatchingScores == [p \in 1..Cardinality(MatchingIndices) |-> call.bm25_scores[NthMatching(p)]]

\* C18: the result of hybrid retrieval with a predicate equals the result of
\* the same fusion over only the chunks that satisfy the predicate.
C18_PredicateFirst ==
    (Retrieved /\ MatchingIndices # {}) =>
        call.out = hybrid_retrieve(call.k, "", <<>>, call.prefer_personal,
                                   MatchingChunks, MatchingScores, call.semantic_docs)

\* the identities in the order the fusion first sees them: the lexical
\* candidates in lexical rank order, then the semantic hits in their order
IsLexicalId(id) == \E i \in LexicalCandidates : DocId(call.all_chunks[i]) = id
FirstLexical(id) ==
    CHOOSE i \in LexicalCandidates :
        /\ DocId(call.all_chunks[i]) = id
        /\ \A j \in LexicalCandidates :
               DocId(call.all_chunks[j]) = id => (j = i \/ LexBefore(i, j))
FirstSemantic(id) ==
    CHOOSE j \in 1..Len(call.semantic_docs) :
        /\ DocId(call.semantic_docs[j]) = id
        /\ \A m \in 1..(j - 1) : DocId(call.semantic_docs[m]) # id
SeenBefore(a, b) ==
    IF IsLexicalId(a) /\ IsLexicalId(b) THEN LexBefore(FirstLexical(a), FirstLexical(b))
    ELSE IF IsLexicalId(a) THEN TRUE
    ELSE IF IsLexicalId(b) THEN FALSE
    ELSE FirstSemantic(a) < FirstSemantic(b)

\* C19: the list hybrid retrieval returns is ordered by non-increasing fused
\* score, chunks of equal score in first-seen order; the same inputs give the
\* same chunks in the same order with the same scores.
C19_StableOrder ==
    Retrieved =>
        /\ \A p, q \in 1..Len(call.out) :
               p < q =>
                   /\ RLe(call.out[q].relevance_score, call.out[p].relevance_score)
                   /\ call.out[p].relevance_score = call.out[q].relevance_score =>
                          SeenBefore(DocId(call.out[p]), DocId(call.out[q]))
        /\ call.out = retrieve_with_metadata_filter(
                          <<>>, call.k, call.policy_type, call.policy_number,
                          IF call.prefer_personal THEN "True" ELSE "False", TRUE,
                          call.all_chunks, call.bm25_scores,
                          [j \in 1..Len(call.semantic_docs) |->
                              CHOOSE c \in Range(HybridStore) :
                                  AsDoc(c) = call.semantic_docs[j]])

\* a lexical candidate and a semantic-only hit with the same score above
\* zero, returned in that order, and a third identity left out
C19_Witness ==
    /\ Retrieved
    /\ Len(call.out) = 2
    /\ Cardinality(FusedIds) > 2
    /\ call.out[1].relevance_score = call.out[2].relevance_score
    /\ RLt(RZero, call.out[1].relevance_score)
    /\ IsLexicalId(DocId(call.out[1]))
    /\ ~IsLexicalId(DocId(call.out[2]))

Letters ==
    {"a", "b", "c", "d", "e", "f", "g", "h", "i", "j", "k", "l", "m", "n", "o", "p", "q",
     "r", "s", "t", "u", "v", "w", "x", "y", "z"}

\* marker m stands in text q at position p as a whole word or phrase: no
\* letter right before it and none right after it
WholeWordAt(q, m, p) ==
    /\ p + Len(m) - 1 <= Len(q)
    /\ SubSeq(q, p, p + Len(m) - 1) = m
    /\ (p = 1 \/ q[p - 1] \notin Letters)
    /\ (p + Len(m) - 1 = Len(q) \/ q[p + Len(m)] \notin Letters)

\* the query holds one of the personal markers as a whole word or phrase
HasWholeMarker(query) ==
    \E n \in 1..Len(personal_indicators), p \in 1..Len(query) :
        WholeWordAt(LowerQuery(query), Strip(personal_indicators[n]), p)

\* C20: detect_personal_query_intent classifies a query as personal exactly
\* when it contains a personal marker as a whole word or phrase, whatever the
\* case of the letters and wherever the marker stands, the end included.
C20_WholeWord ==
    call.fn = "detect_personal_query_intent" => (call.out <=> HasWholeMarker(call.query))

(***************************************************************************)
(* Retrieval over missing or empty indexes                                *)
(***************************************************************************)
RetrieveCalled == call.fn = "retrieve_with_metadata_filter"

\* C21: with an empty chunk universe (both indexes built over no chunk)
\* retrieval raises no error and returns the empty list, for every query and
\* every k.
C21_EmptyUniverse ==
    (RetrieveCalled /\ call.bm25_file_exists /\ call.store_built /\ call.all_chunks = <<>>)
        => (~call.raised /\ call.out = <<>>)

\* C22: an index that was not built counts as zero results. With exactly one
\* of the two indexes unavailable the call raises no error and returns the
\* ranked results of the other one; with both unavailable it returns the
\* empty list.
C22_UnbuiltIndexIsEmpty ==
    RetrieveCalled =>
        /\ (~call.bm25_file_exists /\ call.store_built)
                => (~call.raised /\ call.out = call.semantic_docs)
        /\ (call.bm25_file_exists /\ ~call.store_built)
                => /\ ~call.raised
                   /\ call.out = hybrid_retrieve(call.k, call.policy_type,
                                      call.policy_number, call.prefer_personal,
                                      call.all_chunks, call.bm25_scores, <<>>)
        /\ (~call.bm25_file_exists /\ ~call.store_built)
                => (~call.raised /\ call.out = <<>>)

(***************************************************************************)
(* query_documents: the except branch                                     *)
(***************************************************************************)
\* C23: an exception raised by retrieval or by answer generation ends the
\* request with HTTP 500 'Query failed' and one metrics record with
\* success = false, never with a response; and a request that returns a
\* response is never logged with success = false.
C23_FailureIsHttp500 ==
    /\ (pc = "failed") => (error # <<>> /\ logged = <<>> /\ result = NoResult)
    /\ (pc = "done" /\ error # <<>>)
            => /\ result.kind = "http500"
               /\ IsPrefixOf(<<"Query failed: ">>, result.detail)
               /\ Len(logged) = 1
               /\ ~logged[1].success
    /\ (pc = "done" /\ result.kind = "response")
            => (error = <<>> /\ \A i \in 1..Len(logged) : logged[i].success)

\* the generation call of an accepted question raised, and the request is over
C23_Witness ==
    /\ pc = "done"
    /\ gen_calls = 1
    /\ error # <<>>
    /\ result.kind = "http500"

(***************************************************************************)
(* check_coverage and compare_policies: text that is not the expected JSON *)
(***************************************************************************)
\* the text of the call is JSON of the expected shape: it parses, it is an
\* object, and the endpoint builds its response from it

\* C24: whenever the text of the LLM cannot be turned into the expected
\* structured object (malformed JSON, JSON that is not an object, fields of
\* the wrong shape) the endpoint does not fail: check_coverage returns the
\* raw text as coverage_determination with is_covered = false and confidence
\* 'low', compare_policies the raw text as summary with no item.
C24_RawTextFallback ==
    /\ (call.fn = "check_coverage" /\ call.parsed.t # "object")
            => /\ call.out.kind = "response"
               /\ call.out.coverage_determination = call.response
               /\ ~call.out.is_covered
               /\ call.out.confidence = <<"low">>
    /\ (call.fn = "compare_policies" /\ call.parsed.t # "object")
            => /\ call.out.kind = "response"
               /\ call.out.summary = call.response
               /\ call.out.comparison_items = <<>>
    /\ (call.fn \in {"check_coverage", "compare_policies"} /\ call.parsed.t = "object")
            => call.out.kind = "response"

(***************************************************************************)
(* Ingestion                                                              *)
(***************************************************************************)
\* C25: after any sequence of successful ingestion runs the lexical and the
\* semantic index each hold exactly the chunks of the most recent run (no
\* chunk of an earlier run, none twice), hence the same chunk set.
C25_RebuiltFromScratch ==
    (call.fn = "ingest_documents") =>
        /\ call.after.bm25_exists
        /\ call.after.bm25_chunks = call.chunks
        /\ \A c \in Range(call.after.vectordb) \cup Range(call.chunks) :
                Count(call.after.vectordb, c) = Count(call.chunks, c)

(***************************************************************************)
(* retrieve_with_metadata_filter: the dispatch                            *)
(***************************************************************************)
\* the fusion of the call's inputs under a given preference
FusedWith(prefer) ==
    hybrid_retrieve(call.k, call.policy_type, call.policy_number, prefer,
                    call.all_chunks, call.bm25_scores, call.semantic_docs)

\* C26: a call that returns runs the hybrid fusion exactly when hybrid search
\* is enabled and the lexical index file exists; otherwise it makes one pure
\* semantic retrieval with the requested k and returns its result unchanged.
\* The preference is detected from the query only when the caller gave none:
\* an explicit true or false is used as given.
C26_Dispatch ==
    (RetrieveCalled /\ ~call.raised) =>
        LET prefer == IF call.prefer_arg = "None"
                      THEN detect_personal_query_intent(call.query)
                      ELSE call.prefer_arg = "True"
        IN  IF HYBRID_SEARCH_ENABLED /\ call.bm25_file_exists
            THEN call.out = FusedWith(prefer)
            ELSE call.semantic_k = call.k /\ call.out = call.semantic_docs

\* a personal query with an explicit false, where the detected preference
\* would have given another result
C26_Witness ==
    /\ RetrieveCalled
    /\ ~call.raised
    /\ call.bm25_file_exists
    /\ call.prefer_arg = "False"
    /\ detect_personal_query_intent(call.query)
    /\ call.out # FusedWith(TRUE)

(***************************************************************************)
(* add_confidence_disclaimer                                              *)
(***************************************************************************)
\* what add_confidence_disclaimer put after the answer
Appended == SubSeq(call.out, Len(call.answer) + 1, Len(call.out))

\* C27: add_confidence_disclaimer returns the answer unchanged for 'high';
\* for 'low' it returns the answer followed by a disclaimer that holds the
\* 'Low Confidence' marker and the score; for every level the answer is a
\* prefix of the result.
C27_Disclaimer ==
    (call.fn = "add_confidence_disclaimer") =>
        /\ IsPrefixOf(call.answer, call.out)
        /\ (call.confidence_level = "high") => (call.out = call.answer)
        /\ (call.confidence_level = "low")
                => /\ \E i \in 1..Len(Appended) : Appended[i] = "**Low Confidence ("
                   /\ \E i \in 1..Len(Appended) : Appended[i] = Fmt2(call.confidence_score)

\* a low-confidence answer that is not empty got its disclaimer
C27_Witness ==
    /\ call.fn = "add_confidence_disclaimer"
    /\ call.confidence_level = "low"
    /\ call.answer # <<>>
    /\ call.out # call.answer

(***************************************************************************)
(* query_documents: the faithful / not faithful verdict                   *)
(***************************************************************************)
\* C28: the verdict of the fact-check has no influence on the outcome of
\* query_documents. The answer text, the confidence score and the level of
\* an answered request are determined by the numeric faithfulness score, the
\* retrieval and the generated text alone, so two requests that differ only
\* in the verdict end alike, and an answer judged not faithful can be
\* reported 'high'.
C28_VerdictIgnored ==
    Answered =>
        LET conf == OverrideConfidence(
                        calculate_confidence_score(retrieval_quality[2], faith[2],
                                                   Len(citations) > 0),
                        hallucinations)
            text == IF hallucinations # <<>>
                    THEN ParsedAnswer(response) \o Warning(hallucinations)
                    ELSE ParsedAnswer(response)
        IN  /\ result.answer = add_confidence_disclaimer(text, conf[2], conf[1])
            /\ result.confidence = conf[2]
            /\ logged[1].confidence_score = conf[1]
            /\ logged[1].confidence_level = conf[2]

\* an answer the fact-check judged not faithful is returned as 'high'
C28_Witness ==
    /\ Answered
    /\ ~faith_call.raised
    /\ ~faith[1]
    /\ result.confidence = "high"

RelevantAt(i) ==
    \E r \in 1..Len(call.relevant_sources) :
        Contains(call.retrieved_docs[i].source, call.relevant_sources[r])

\* every relevant source is retrieved, once, and the relevant documents
\* come before all others
IdealRanking ==
    LET n == Len(call.relevant_sources)
    IN  /\ n >= 1
        /\ n <= Len(call.retrieved_docs)
        /\ \A i \in 1..Len(call.retrieved_docs) : RelevantAt(i) <=> i <= n
        /\ \A r \in 1..n : \E i \in 1..n :
               call.retrieved_docs[i].source = call.relevant_sources[r]

\* C30: calculate_ndcg returns a score in [0,1] for every retrieved list and
\* every list of relevant sources, and 1.0 for an ideal ranking;
\* calculate_mrr returns a value in [0,1], the reciprocal of the rank of the
\* first matching document, and 0 when none matches.
C30_MetricsInUnitInterval ==
    /\ (call.fn = "calculate_ndcg")
            => /\ InUnitInterval(call.out)
               /\ IdealRanking => call.out = ROne
    /\ (call.fn = "calculate_mrr")
            => LET matches == {i \in 1..Len(call.retrieved_docs) :
                                 Contains(call.retrieved_docs[i].source,
                                          call.relevant_source)}
               IN  /\ InUnitInterval(call.out)
                   /\ (matches = {}) => (call.out = RZero)
                   /\ \A i \in matches :
                          (\A h \in matches : i <= h) => (call.out = <<1, i>>)
====
